---------------------------- MODULE Spec2Model ----------------------------
(***************************************************************************)
(* Model of the hybrid recommendation engine (RecommendationEngine) and of *)
(* the skill-extraction pipeline (SkillExtractor).                         *)
(*                                                                         *)
(* Numbers.  Scores, weights and factors are fixed-point integers: a score *)
(* or a weight of the program is held in hundredths (1.0 is 100), and a    *)
(* product score * weight in ten-thousandths (1.0 is 10000).               *)
(***************************************************************************)
EXTENDS Integers, Sequences, FiniteSets, TLC

VARIABLES
    combineArgs,    \* combineRecommendations: the `sources` argument
    combineRet,     \* combineRecommendations: the returned list, or NotRun
    diversityArgs,  \* applyDiversityFilter: arguments and the Course collection
    diversityRet,   \* applyDiversityFilter: the outcome, or NotRun
    filterArgs,     \* filterCompletedCourses: recommendations and learningHistory
    filterRet,      \* filterCompletedCourses: the returned list, or NotRun
    extractArgs,    \* extractSkills: the text (by what the methods find in it) and options
    extractRet,     \* extractSkills: the outcome, or NotRun
    requesterHistory, \* the store: the requester's learning history, course -> status
    cache,          \* the cache: key -> entry
    calls,          \* the generateRecommendations calls in flight, one per caller
    audit,          \* history variable: calls started, rejections injected, and
                    \* the answer returned before the call now made
    levelArgs,      \* analyzeSkillLevel: the context windows of the skill in the text
    levelRet,       \* analyzeSkillLevel: the returned level, or NotRun
    collabArgs,     \* collaborativeFiltering: userId and the users and courses found
    collabRet,      \* collaborativeFiltering: the returned list, or NotRun
    profileSkills,  \* a User document: profile.skills
    lastOp,         \* history variable: the method last called on the User document
    scorerArgs,     \* one scorer called alone: the scorer, the user and the store's answer
    scorerRet,      \* that scorer's candidate list, or NotRun
    analyticsArgs,  \* updateAnalytics: the User document it is called on
    analyticsRet,   \* updateAnalytics: the document's analytics afterwards, or NotRun
    scanArgs,       \* extractSkillContext: the text and the skill name
    scanRet,        \* extractSkillContext: the state of its loop over the mentions
    simArgs,        \* calculateCourseSimilarity: the two courses
    simRet          \* calculateCourseSimilarity: the value for each order, or NotRun

engineVars == <<requesterHistory, cache, calls, audit>>

vars == <<combineArgs, combineRet, diversityArgs, diversityRet,
          filterArgs, filterRet, extractArgs, extractRet,
          requesterHistory, cache, calls, audit,
          levelArgs, levelRet, collabArgs, collabRet, profileSkills, lastOp,
          scorerArgs, scorerRet, analyticsArgs, analyticsRet, scanArgs, scanRet,
          simArgs, simRet>>

NotRun == [state |-> "not-run"]
Idle == [state |-> "idle"]

\* the engine is not part of the specification
EngineIdle == requesterHistory = Idle /\ cache = Idle /\ calls = Idle /\ audit = Idle

levelVars == <<levelArgs, levelRet>>
collabVars == <<collabArgs, collabRet>>
userVars == <<profileSkills, lastOp>>

LevelIdle == levelArgs = Idle /\ levelRet = Idle
CollabIdle == collabArgs = Idle /\ collabRet = Idle
UserIdle == profileSkills = Idle /\ lastOp = Idle

scorerVars == <<scorerArgs, scorerRet>>
analyticsVars == <<analyticsArgs, analyticsRet>>
scanVars == <<scanArgs, scanRet>>
simVars == <<simArgs, simRet>>

ScorerIdle == scorerArgs = Idle /\ scorerRet = Idle
AnalyticsIdle == analyticsArgs = Idle /\ analyticsRet = Idle
ScanIdle == scanArgs = Idle /\ scanRet = Idle
SimIdle == simArgs = Idle /\ simRet = Idle

(***************************************************************************)
(* Generic helpers                                                         *)
(***************************************************************************)
Range(s) == {s[i] : i \in 1..Len(s)}

RECURSIVE SeqsUpTo(_, _)
\* all sequences over S of length at most n
SeqsUpTo(S, n) ==
    IF n = 0 THEN {<<>>}
    ELSE LET shorter == SeqsUpTo(S, n - 1)
         IN  shorter \cup {Append(s, x) : s \in {t \in shorter : Len(t) = n - 1}, x \in S}

Min(a, b) == IF a <= b THEN a ELSE b
Max(a, b) == IF a >= b THEN a ELSE b

\* Array.prototype.slice(0, n)
Slice(s, n) == SubSeq(s, 1, Min(n, Len(s)))

(***************************************************************************)
(* RecommendationEngine: weights and thresholds (constructor)              *)
(***************************************************************************)
WeightCollaborative == 35
WeightContentBased == 35
WeightMarketDriven == 20
WeightBehavioral == 10

SumOfWeights ==
    WeightCollaborative + WeightContentBased + WeightMarketDriven + WeightBehavioral

One == 100          \* 1.0 as a score
OneCombined == 10000 \* 1.0 as a combined (score * weight) value

(***************************************************************************)
(* combineRecommendations(sources)                                         *)
(***************************************************************************)
\* index of the entry of `combined` with this courseId, 0 when there is none
IndexOfCourse(combined, courseId) ==
    IF \E i \in 1..Len(combined) : combined[i].courseId = courseId
    THEN CHOOSE i \in 1..Len(combined) : combined[i].courseId = courseId
    ELSE 0

\* variant: a later candidate of a course replaces the score merged so far
CombineOne_Overwrite(combined, rec, weight, type) ==
    LET i == IndexOfCourse(combined, rec.courseId)
        src == [type |-> type, score |-> rec.score, reason |-> rec.reason]
    IN  IF i > 0
        THEN [combined EXCEPT ![i] = [@ EXCEPT !.score = rec.score * weight,
                                               !.sources = Append(@, src)]]
        ELSE Append(combined, [courseId |-> rec.courseId,
                               score |-> rec.score * weight,
                               sources |-> <<src>>])

\* the body of recs.forEach: one candidate merged into the Map
CombineOne(combined, rec, weight, type) ==
    LET i == IndexOfCourse(combined, rec.courseId)
        src == [type |-> type, score |-> rec.score, reason |-> rec.reason]
    IN  IF i > 0
        THEN [combined EXCEPT ![i] = [@ EXCEPT !.score = @ + rec.score * weight,
                                               !.sources = Append(@, src)]]
        ELSE Append(combined, [courseId |-> rec.courseId,
                               score |-> rec.score * weight,
                               sources |-> <<src>>])

RECURSIVE CombineRecs(_, _, _, _, _)
CombineRecs(combined, recs, weight, type, i) ==
    IF i > Len(recs) THEN combined
    ELSE CombineRecs(CombineOne(combined, recs[i], weight, type), recs, weight, type, i + 1)

RECURSIVE CombineSources(_, _, _)
CombineSources(combined, sources, k) ==
    IF k > Len(sources) THEN combined
    ELSE CombineSources(
            CombineRecs(combined, sources[k].recs, sources[k].weight, sources[k].type, 1),
            sources, k + 1)

\* Array.prototype.sort((a, b) => b.score - a.score): stable, descending by score
InsertByScoreDesc(sorted, x) ==
    LET n == Cardinality({i \in 1..Len(sorted) : sorted[i].score >= x.score})
        \* the elements with a score >= x.score form a prefix of a sorted list
    IN  SubSeq(sorted, 1, n) \o <<x>> \o SubSeq(sorted, n + 1, Len(sorted))

RECURSIVE SortByScoreDesc(_)
SortByScoreDesc(s) ==
    IF s = <<>> THEN <<>>
    ELSE InsertByScoreDesc(SortByScoreDesc(SubSeq(s, 1, Len(s) - 1)), s[Len(s)])

combineRecommendations(sources) ==
    SortByScoreDesc(CombineSources(<<>>, sources, 1))

\* the `sources` argument as generateRecommendations builds it
EngineSources(collaborativeRecs, contentRecs, marketRecs, behavioralRecs) ==
    << [recs |-> collaborativeRecs, weight |-> WeightCollaborative, type |-> "collaborative"],
       [recs |-> contentRecs, weight |-> WeightContentBased, type |-> "content-based"],
       [recs |-> marketRecs, weight |-> WeightMarketDriven, type |-> "market-driven"],
       [recs |-> behavioralRecs, weight |-> WeightBehavioral, type |-> "behavioral"] >>


(***************************************************************************)
(* Strings.  The program compares skill names with toLowerCase() and       *)
(* String.prototype.includes().  The names the model uses are listed here  *)
(* with their lower-case form and, for each, the names of the list it      *)
(* contains as a substring.                                                *)
(***************************************************************************)
ToLowerCase(str) ==
    CASE str = "Java" -> "java"
      [] str = "Python" -> "python"
      [] str = "Machine Learning" -> "machine learning"
      [] str = "Python " -> "python "
      [] OTHER -> str

\* str.trim(), for the model's names
Trim(str) ==
    CASE str = "python " -> "python"
      [] str = "Python " -> "Python"
      [] OTHER -> str

\* s.includes(t), for lower-case s and t of the model's names
Includes(s, t) ==
    \/ s = t
    \/ t = ""
    \/ <<s, t>> \in { <<"javascript", "java">>,
                      <<"machine learning", "machine">>,
                      <<"machine learning", "learning">>,
                      <<"deep learning", "learning">>,
                      <<"artificial intelligence", "artificial">> }

\* str.split(' ')[0]
FirstWord(str) ==
    CASE str = "artificial intelligence" -> "artificial"
      [] str = "machine learning" -> "machine"
      [] str = "cloud computing" -> "cloud"
      [] str = "data science" -> "data"
      [] OTHER -> str

\* WordTokenizer.tokenize(str): the words of a lower-case string
Words(str) ==
    CASE str = "" -> <<>>
      [] str = "machine learning" -> <<"machine", "learning">>
      [] str = "ml engineer" -> <<"ml", "engineer">>
      [] str = "python ml" -> <<"python", "ml">>
      [] str = "ml theory" -> <<"ml", "theory">>
      [] str = "web apps" -> <<"web", "apps">>
      [] OTHER -> <<str>>

\* Array.prototype.map(s => s.toLowerCase())
LowerAll(strs) == [i \in 1..Len(strs) |-> ToLowerCase(strs[i])]

(***************************************************************************)
(* calculateSkillSimilarity(userSkills, courseSkills): the quotient        *)
(* intersection.length / union.length, held as [num, den]                  *)
(***************************************************************************)
calculateSkillSimilarity(userSkills, courseSkills) ==
    IF Len(userSkills) = 0 \/ Len(courseSkills) = 0 THEN [num |-> 0, den |-> 1]
    ELSE LET userSkillsLower == LowerAll(userSkills)
             courseSkillsLower == LowerAll(courseSkills)
             \* filter keeps every matching element of the array, repeats included
             intersection ==
                 { i \in 1..Len(userSkillsLower) :
                     \E j \in 1..Len(courseSkillsLower) :
                         \/ Includes(courseSkillsLower[j], userSkillsLower[i])
                         \/ Includes(userSkillsLower[i], courseSkillsLower[j]) }
             union == Range(userSkillsLower) \cup Range(courseSkillsLower)
         IN  [num |-> Cardinality(intersection), den |-> Cardinality(union)]

(***************************************************************************)
(* calculateCourseSimilarity(course1, course2), in hundredths, held as     *)
(* [num, den]: 0.4 for the category, 0.4 * skillSim, 0.2 for the difficulty*)
(***************************************************************************)
calculateCourseSimilarity(course1, course2) ==
    LET skillSim == calculateSkillSimilarity(course1.skills, course2.skills)
        category == IF course1.category = course2.category THEN 40 ELSE 0
        difficulty == IF course1.difficulty = course2.difficulty THEN 20 ELSE 0
    IN  [num |-> category * skillSim.den + 40 * skillSim.num + difficulty * skillSim.den,
         den |-> skillSim.den]

(***************************************************************************)
(* The Course collection: a function from course ids to course documents,  *)
(* NoCourse where the collection holds no document of that id.             *)
(***************************************************************************)
NoCourse == [missing |-> TRUE]

\* Course.find({ _id: { $in: ids } }) turned into courseMap
CourseMapOf(collection, ids) ==
    [id \in {c \in ids \cap DOMAIN collection : collection[c] # NoCourse} |-> collection[id]]

(***************************************************************************)
(* applyDiversityFilter(recommendations, diversityFactor)                  *)
(***************************************************************************)
\* variant: the comparison written >= instead of >
TooSimilar_AtLeast(similarity, diversityFactor) ==
    similarity.num >= (One - diversityFactor) * similarity.den

\* similarity > (1 - diversityFactor)
TooSimilar(similarity, diversityFactor) ==
    similarity.num > (One - diversityFactor) * similarity.den

\* variant: the candidate compared with the last selected recommendation only
IsDiverse_LastOnly(candidateCourse, diverseRecs, courseMap, diversityFactor) ==
    \A k \in {Len(diverseRecs)} :
        \/ diverseRecs[k].courseId \notin DOMAIN courseMap
        \/ ~TooSimilar(calculateCourseSimilarity(candidateCourse,
                                                 courseMap[diverseRecs[k].courseId]),
                       diversityFactor)

\* the inner loop over diverseRecs: no selected course is too similar
IsDiverse(candidateCourse, diverseRecs, courseMap, diversityFactor) ==
    \A k \in 1..Len(diverseRecs) :
        \/ diverseRecs[k].courseId \notin DOMAIN courseMap      \* continue
        \/ ~TooSimilar(calculateCourseSimilarity(candidateCourse,
                                                 courseMap[diverseRecs[k].courseId]),
                       diversityFactor)

RECURSIVE DiverseLoop(_, _, _, _, _)
DiverseLoop(recommendations, courseMap, diversityFactor, diverseRecs, i) ==
    IF i > Len(recommendations) THEN diverseRecs
    ELSE LET candidate == recommendations[i]
         IN  IF candidate.courseId \notin DOMAIN courseMap
             THEN DiverseLoop(recommendations, courseMap, diversityFactor, diverseRecs, i + 1)
             ELSE IF IsDiverse(courseMap[candidate.courseId], diverseRecs, courseMap,
                               diversityFactor)
                  THEN DiverseLoop(recommendations, courseMap, diversityFactor,
                                   Append(diverseRecs, candidate), i + 1)
                  ELSE DiverseLoop(recommendations, courseMap, diversityFactor,
                                   diverseRecs, i + 1)

\* variant: the top recommendation examined like the others instead of being
\* placed in diverseRecs unconditionally
DiverseRecsOf_TopExamined(recommendations, courseMap, diversityFactor) ==
    DiverseLoop(recommendations, courseMap, diversityFactor, <<>>, 1)

\* the filter once Course.find has answered
DiverseRecsOf(recommendations, courseMap, diversityFactor) ==
    DiverseLoop(recommendations, courseMap, diversityFactor, <<recommendations[1]>>, 2)

\* storeOk: whether the Course.find of the filter answers (it rejects otherwise)
applyDiversityFilter(recommendations, diversityFactor, collection, storeOk) ==
    IF Len(recommendations) <= 1
    THEN [state |-> "returned", value |-> recommendations]
    ELSE IF ~storeOk
         THEN [state |-> "raised", error |-> "Course.find"]
         ELSE [state |-> "returned",
               value |-> DiverseRecsOf(recommendations,
                            CourseMapOf(collection,
                                {recommendations[i].courseId : i \in 1..Len(recommendations)}),
                            diversityFactor)]

(***************************************************************************)
(* filterCompletedCourses(recommendations, learningHistory)                *)
(***************************************************************************)
\* variant: every entry that is not merely enrolled counts as completed
CompletedCourseIds_Started(learningHistory) ==
    { learningHistory[i].courseId :
        i \in {j \in 1..Len(learningHistory) : learningHistory[j].status # "enrolled"} }

\* the Set built from learningHistory.filter(...).map(h => h.courseId)
CompletedCourseIds(learningHistory) ==
    { learningHistory[i].courseId :
        i \in {j \in 1..Len(learningHistory) : learningHistory[j].status = "completed"} }

\* recommendations.filter(rec => !completedCourseIds.has(rec.courseId))
RECURSIVE WithoutCourses(_, _, _)
WithoutCourses(recommendations, completedCourseIds, i) ==
    IF i > Len(recommendations) THEN <<>>
    ELSE (IF recommendations[i].courseId \notin completedCourseIds
          THEN <<recommendations[i]>> ELSE <<>>)
         \o WithoutCourses(recommendations, completedCourseIds, i + 1)

filterCompletedCourses(recommendations, learningHistory) ==
    WithoutCourses(recommendations, CompletedCourseIds(learningHistory), 1)

(***************************************************************************)
(* The stores.  The Course collection and the users other than the         *)
(* requester are fixed; the requester's learning history changes.  A       *)
(* learning-history entry copies the category and the provider of its      *)
(* course (learningHistorySchema has no difficulty).                       *)
(***************************************************************************)
Catalog ==
    << [id |-> "c1", title |-> "python ml", description |-> "",
        skills |-> <<"machine learning", "python">>,
        category |-> "ai", provider |-> "p1", difficulty |-> "beginner"],
       [id |-> "c2", title |-> "ml theory", description |-> "",
        skills |-> <<"machine learning">>,
        category |-> "ai", provider |-> "p2", difficulty |-> "beginner"],
       [id |-> "c3", title |-> "web apps", description |-> "",
        skills |-> <<"javascript">>,
        category |-> "web", provider |-> "p1", difficulty |-> "intermediate"] >>

CatalogIds == {Catalog[i].id : i \in 1..Len(Catalog)}
CourseById(id) == Catalog[CHOOSE i \in 1..Len(Catalog) : Catalog[i].id = id]
CatalogCollection == [id \in CatalogIds |-> CourseById(id)]

\* Course.find(query): the documents satisfying the query, in collection order
RECURSIVE CoursesWhere(_, _)
CoursesWhere(matching, i) ==
    IF i > Len(Catalog) THEN <<>>
    ELSE (IF Catalog[i].id \in matching THEN <<Catalog[i]>> ELSE <<>>)
         \o CoursesWhere(matching, i + 1)

\* the requester's profile
RequesterProfile ==
    [skills |-> << [name |-> "python", level |-> "intermediate"] >>,
     interests |-> <<>>,
     careerGoals |-> << [title |-> "ml engineer", status |-> "active",
                         requiredSkills |-> <<"machine learning">>] >>,
     learningPreferences |-> [difficulty |-> "mixed"]]

\* a learning-history entry of the given status for a course
HistoryEntry(courseId, status) ==
    [courseId |-> courseId, status |-> status,
     progress |-> IF status = "completed" THEN 100
                  ELSE IF status = "in-progress" THEN 50 ELSE 0,
     rating |-> 0,       \* no rating given
     timeSpent |-> 0,    \* the schema's default
     category |-> CourseById(courseId).category,
     provider |-> CourseById(courseId).provider]

\* the learningHistory array of a user whose entries are given per course
RECURSIVE HistoryEntries(_, _)
HistoryEntries(statusOf, i) ==
    IF i > Len(Catalog) THEN <<>>
    ELSE (IF statusOf[Catalog[i].id] # "none"
          THEN <<HistoryEntry(Catalog[i].id, statusOf[Catalog[i].id])>> ELSE <<>>)
         \o HistoryEntries(statusOf, i + 1)

\* the other user of the store
OtherUser ==
    [id |-> "u2",
     learningHistory |-> <<HistoryEntry("c1", "completed"), HistoryEntry("c2", "completed")>>]

\* the requester's document for a learning history
UserDoc(learningHistory) ==
    [id |-> "u1", profile |-> RequesterProfile, learningHistory |-> learningHistory]

(***************************************************************************)
(* behavioralRecommendations(user)                                         *)
(***************************************************************************)
\* the values of a field of the entries with their counts, in first-seen order
RECURSIVE CountByField(_, _, _, _)
CountByField(entries, field, counts, i) ==
    IF i > Len(entries) THEN counts
    ELSE LET v == entries[i][field]
             hit == {k \in 1..Len(counts) : counts[k].value = v}
         IN  IF v = "undefined" THEN CountByField(entries, field, counts, i + 1)
             ELSE IF hit # {}
             THEN CountByField(entries, field,
                    [counts EXCEPT ![CHOOSE k \in hit : TRUE].score = @ + 1], i + 1)
             ELSE CountByField(entries, field,
                    Append(counts, [value |-> v, score |-> 1]), i + 1)

\* Object.entries(count).sort(([,a], [,b]) => b - a).slice(0, n).map(([v]) => v)
TopValues(entries, field, n) ==
    LET sorted == Slice(SortByScoreDesc(CountByField(entries, field, <<>>, 1)), n)
    IN  [k \in 1..Len(sorted) |-> sorted[k].value]

analyzePreferredCategories(completedCourses) == TopValues(completedCourses, "category", 3)
analyzePreferredProviders(completedCourses) == TopValues(completedCourses, "provider", 2)
\* the entries carry no difficulty: difficultyCount stays empty
analyzePreferredDifficulty(completedCourses) == "intermediate"

RECURSIVE CompletedEntries(_, _)
CompletedEntries(learningHistory, i) ==
    IF i > Len(learningHistory) THEN <<>>
    ELSE (IF learningHistory[i].status = "completed" THEN <<learningHistory[i]>> ELSE <<>>)
         \o CompletedEntries(learningHistory, i + 1)

\* the score and the candidate of one course, <<>> when the score is 0
BehavioralCandidate(course, preferredCategories, preferredProviders, preferredDifficulty) ==
    LET score == (IF course.category \in Range(preferredCategories) THEN 40 ELSE 0)
                 + (IF course.provider \in Range(preferredProviders) THEN 30 ELSE 0)
                 + (IF course.difficulty = preferredDifficulty THEN 30 ELSE 0)
    IN  IF score > 0
        THEN << [courseId |-> course.id, score |-> score, reason |-> "learning patterns"] >>
        ELSE <<>>

RECURSIVE BehavioralCandidates(_, _, _, _, _)
BehavioralCandidates(courses, cats, provs, diff, i) ==
    IF i > Len(courses) THEN <<>>
    ELSE BehavioralCandidate(courses[i], cats, provs, diff)
         \o BehavioralCandidates(courses, cats, provs, diff, i + 1)

maxRecommendations == 50

\* storeOk: whether the scorer's Course.find answers; a rejection is caught
behavioralRecommendations(user, storeOk) ==
    IF Len(user.learningHistory) = 0 THEN <<>>
    ELSE IF ~storeOk THEN <<>>
    ELSE LET completedCourses == CompletedEntries(user.learningHistory, 1)
             cats == analyzePreferredCategories(completedCourses)
             provs == analyzePreferredProviders(completedCourses)
             diff == analyzePreferredDifficulty(completedCourses)
             courses == CoursesWhere(
                 {c \in CatalogIds : \/ CourseById(c).category \in Range(cats)
                                     \/ CourseById(c).provider \in Range(provs)
                                     \/ CourseById(c).difficulty = diff}, 1)
         IN  Slice(SortByScoreDesc(BehavioralCandidates(courses, cats, provs, diff, 1)),
                   maxRecommendations)

(***************************************************************************)
(* marketDrivenRecommendations(user)                                       *)
(***************************************************************************)
\* getMarketData().trendingSkills
TrendingSkills ==
    << [skill |-> "artificial intelligence", growthRate |-> 45, demandLevel |-> "high"],
       [skill |-> "machine learning", growthRate |-> 38, demandLevel |-> "high"],
       [skill |-> "cloud computing", growthRate |-> 32, demandLevel |-> "high"],
       [skill |-> "data science", growthRate |-> 28, demandLevel |-> "medium"],
       [skill |-> "cybersecurity", growthRate |-> 25, demandLevel |-> "high"] >>

calculateMarketScore(trend, userProfile) ==
    LET base == trend.growthRate
                + (IF trend.demandLevel = "high" THEN 30
                   ELSE IF trend.demandLevel = "medium" THEN 10 ELSE 0)
        hasRelatedSkill ==
            \E i \in 1..Len(userProfile.skills) :
                Includes(ToLowerCase(userProfile.skills[i].name),
                         FirstWord(ToLowerCase(trend.skill)))
    IN  Min(base + (IF hasRelatedSkill THEN 20 ELSE 0), One)

\* Course.find({ skills: { $regex: new RegExp(skillName, 'i') } })
CoursesWithSkill(skillName) ==
    CoursesWhere({c \in CatalogIds :
                    \E k \in 1..Len(CourseById(c).skills) :
                        Includes(ToLowerCase(CourseById(c).skills[k]), ToLowerCase(skillName))}, 1)

\* one candidate per course found for a trend
TrendCandidates(trend, user) ==
    LET skillName == ToLowerCase(trend.skill)
        userSkill == \E i \in 1..Len(user.profile.skills) :
                        /\ ToLowerCase(user.profile.skills[i].name) = skillName
                        /\ user.profile.skills[i].level \in {"advanced", "expert"}
        courses == CoursesWithSkill(skillName)
    IN  IF userSkill THEN <<>>
        ELSE [k \in 1..Len(courses) |->
                [courseId |-> courses[k].id,
                 score |-> calculateMarketScore(trend, user.profile),
                 reason |-> "market demand"]]

RECURSIVE AllTrendCandidates(_, _)
AllTrendCandidates(user, i) ==
    IF i > Len(TrendingSkills) THEN <<>>
    ELSE TrendCandidates(TrendingSkills[i], user) \o AllTrendCandidates(user, i + 1)

\* the candidates for one required skill of a goal
GapCandidates(user, requiredSkill) ==
    LET hasSkill == \E i \in 1..Len(user.profile.skills) :
                        \/ Includes(ToLowerCase(user.profile.skills[i].name),
                                    ToLowerCase(requiredSkill))
                        \/ Includes(ToLowerCase(requiredSkill),
                                    ToLowerCase(user.profile.skills[i].name))
        courses == CoursesWithSkill(requiredSkill)
    IN  IF hasSkill THEN <<>>
        ELSE [k \in 1..Len(courses) |->
                [courseId |-> courses[k].id, score |-> 80, reason |-> "career goal"]]

RECURSIVE GoalCandidates(_, _, _)
GoalCandidates(user, goal, j) ==
    IF j > Len(goal.requiredSkills) THEN <<>>
    ELSE GapCandidates(user, goal.requiredSkills[j]) \o GoalCandidates(user, goal, j + 1)

RECURSIVE generateSkillGapRecommendationsFrom(_, _)
generateSkillGapRecommendationsFrom(user, g) ==
    IF g > Len(user.profile.careerGoals) THEN <<>>
    ELSE (IF user.profile.careerGoals[g].status # "active" THEN <<>>
          ELSE GoalCandidates(user, user.profile.careerGoals[g], 1))
         \o generateSkillGapRecommendationsFrom(user, g + 1)

generateSkillGapRecommendations(user) == generateSkillGapRecommendationsFrom(user, 1)

marketDrivenRecommendations(user, storeOk) ==
    IF ~storeOk THEN <<>>
    ELSE LET gap == IF Len(user.profile.careerGoals) > 0
                    THEN generateSkillGapRecommendations(user) ELSE <<>>
         IN  Slice(SortByScoreDesc(AllTrendCandidates(user, 1) \o gap), maxRecommendations)

(***************************************************************************)
(* cosineSimilarity, in hundredths (rounded down).                         *)
(***************************************************************************)
RECURSIVE SqrtBetween(_, _, _)
\* the largest r in lo..hi with r * r <= n
SqrtBetween(n, lo, hi) ==
    IF lo >= hi THEN lo
    ELSE LET mid == (lo + hi + 1) \div 2
         IN  IF mid * mid <= n THEN SqrtBetween(n, mid, hi)
             ELSE SqrtBetween(n, lo, mid - 1)

\* Math.sqrt(n) in hundredths
SqrtHundredths(n) ==
    IF n <= 200000 THEN SqrtBetween(n * 10000, 0, 46340)
    ELSE 100 * SqrtBetween(n, 0, 46340)

RECURSIVE DotProduct(_, _, _)
DotProduct(vecA, vecB, i) ==
    IF i > Len(vecA) THEN 0 ELSE vecA[i] * vecB[i] + DotProduct(vecA, vecB, i + 1)

cosineSimilarity(vecA, vecB) ==
    IF Len(vecA) # Len(vecB) THEN 0
    ELSE LET dotProduct == DotProduct(vecA, vecB, 1)
             normA == DotProduct(vecA, vecA, 1)
             normB == DotProduct(vecB, vecB, 1)
         IN  IF normA = 0 \/ normB = 0 THEN 0
             ELSE (dotProduct * 10000) \div SqrtHundredths(normA * normB)

(***************************************************************************)
(* contentBasedFiltering(user)                                             *)
(***************************************************************************)
RECURSIVE JoinWords(_, _)
\* the tokens of strs.join(' ')
JoinWords(strs, i) ==
    IF i > Len(strs) THEN <<>> ELSE Words(ToLowerCase(strs[i])) \o JoinWords(strs, i + 1)

RECURSIVE DistinctOf(_, _, _)
\* [...new Set(tokens)]
DistinctOf(tokens, seen, i) ==
    IF i > Len(tokens) THEN seen
    ELSE DistinctOf(tokens,
                    IF tokens[i] \in Range(seen) THEN seen ELSE Append(seen, tokens[i]),
                    i + 1)

\* tokens.filter(t => t === token).length
Occurrences(tokens, token) == Cardinality({k \in 1..Len(tokens) : tokens[k] = token})

\* on the token lists of the two texts
calculateTFIDFSimilarity(tokens1, tokens2) ==
    IF Len(tokens1) = 0 \/ Len(tokens2) = 0 THEN 0
    ELSE LET allTokens == DistinctOf(tokens1 \o tokens2, <<>>, 1)
             vector1 == [k \in 1..Len(allTokens) |-> Occurrences(tokens1, allTokens[k])]
             vector2 == [k \in 1..Len(allTokens) |-> Occurrences(tokens2, allTokens[k])]
         IN  cosineSimilarity(vector1, vector2)

calculateDifficultyMatch(user, course) ==
    LET userPreference == user.profile.learningPreferences.difficulty
    IN  IF userPreference = "mixed" THEN 50
        ELSE IF userPreference = "beginner-friendly"
        THEN (IF course.difficulty = "beginner" THEN One ELSE 0)
        ELSE IF userPreference = "challenging"
        THEN (IF course.difficulty \in {"advanced", "expert"} THEN One ELSE 0)
        ELSE One

RECURSIVE GoalWords(_, _)
GoalWords(careerGoals, g) ==
    IF g > Len(careerGoals) THEN <<>>
    ELSE Words(ToLowerCase(careerGoals[g].title))
         \o JoinWords(careerGoals[g].requiredSkills, 1)
         \o GoalWords(careerGoals, g + 1)

SkillNames(user) == [k \in 1..Len(user.profile.skills) |-> user.profile.skills[k].name]

\* the tokens of the user profile text
UserProfileWords(user) ==
    JoinWords(SkillNames(user), 1) \o JoinWords(user.profile.interests, 1)
    \o GoalWords(user.profile.careerGoals, 1)

\* the tokens of the course content text
CourseContentWords(course) ==
    Words(ToLowerCase(course.title)) \o Words(ToLowerCase(course.description))
    \o JoinWords(course.skills, 1)

minSimilarityThreshold == 10

ContentScore(user, course) ==
    LET tfidfSim == calculateTFIDFSimilarity(UserProfileWords(user), CourseContentWords(course))
        skill == calculateSkillSimilarity(SkillNames(user), course.skills)
        skillSim == (One * skill.num) \div skill.den
        difficultyMatch == calculateDifficultyMatch(user, course)
    IN  (tfidfSim * 40 + skillSim * 40 + difficultyMatch * 20) \div One

RECURSIVE AboveThreshold(_, _)
\* .filter(sim => sim.score > this.minSimilarityThreshold)
AboveThreshold(recs, i) ==
    IF i > Len(recs) THEN <<>>
    ELSE (IF recs[i].score > minSimilarityThreshold THEN <<recs[i]>> ELSE <<>>)
         \o AboveThreshold(recs, i + 1)

contentBasedFiltering(user, storeOk) ==
    IF ~storeOk THEN <<>>
    ELSE LET similarities ==
                 [k \in 1..Len(Catalog) |->
                    [courseId |-> Catalog[k].id, score |-> ContentScore(user, Catalog[k]),
                     reason |-> "content similarity"]]
         IN  Slice(SortByScoreDesc(AboveThreshold(similarities, 1)), maxRecommendations)

(***************************************************************************)
(* collaborativeFiltering(userId)                                          *)
(***************************************************************************)
\* variant: neither the time factor nor the weight is capped
InteractionWeight_Uncapped(history) ==
    LET w0 == IF history.status = "completed" THEN One
              ELSE IF history.status = "in-progress" THEN history.progress ELSE 0
        w1 == IF history.rating # 0 THEN (w0 * history.rating) \div 5 ELSE w0
    IN  IF history.timeSpent > 0
        THEN (w1 * ((history.timeSpent * One) \div 3600)) \div One ELSE w1

\* the weight of one learning-history entry
InteractionWeight(history) ==
    LET w0 == IF history.status = "completed" THEN One
              ELSE IF history.status = "in-progress" THEN history.progress ELSE 0
        w1 == IF history.rating # 0 THEN (w0 * history.rating) \div 5 ELSE w0
        w2 == IF history.timeSpent > 0
              THEN (w1 * Min((history.timeSpent * One) \div 3600, 200)) \div One ELSE w1
    IN  Min(w2, 200)

RECURSIVE InteractionRow(_, _, _, _)
\* the row of one user: a later entry of a course overwrites an earlier one
InteractionRow(learningHistory, courses, row, i) ==
    IF i > Len(learningHistory) THEN row
    ELSE LET at == {k \in 1..Len(courses) : courses[k].id = learningHistory[i].courseId}
         IN  InteractionRow(learningHistory, courses,
                 IF at = {} THEN row
                 ELSE [row EXCEPT ![CHOOSE k \in at : TRUE] = InteractionWeight(learningHistory[i])],
                 i + 1)

buildInteractionMatrix(users, courses) ==
    [u \in 1..Len(users) |->
        InteractionRow(users[u].learningHistory, courses, [k \in 1..Len(courses) |-> 0], 1)]

RECURSIVE SimilaritiesFrom(_, _, _)
SimilaritiesFrom(matrix, userIndex, i) ==
    IF i > Len(matrix) THEN <<>>
    ELSE LET similarity == cosineSimilarity(matrix[userIndex], matrix[i])
         IN  (IF i # userIndex /\ similarity > minSimilarityThreshold
              THEN << [userIndex |-> i, score |-> similarity] >> ELSE <<>>)
             \o SimilaritiesFrom(matrix, userIndex, i + 1)

calculateUserSimilarities(matrix, userIndex) ==
    Slice(SortByScoreDesc(SimilaritiesFrom(matrix, userIndex, 1)), 20)

RECURSIVE RatedSum(_, _, _, _, _)
\* the sum over the similar users who rated the course; weighted: similarity * rating
RatedSum(matrix, similarities, courseIndex, weighted, i) ==
    IF i > Len(similarities) THEN 0
    ELSE LET rating == matrix[similarities[i].userIndex][courseIndex]
         IN  (IF rating > 0
              THEN (IF weighted THEN similarities[i].score * rating ELSE similarities[i].score)
              ELSE 0)
             + RatedSum(matrix, similarities, courseIndex, weighted, i + 1)

RECURSIVE generateCollaborativeRecsFrom(_, _, _, _, _)
generateCollaborativeRecsFrom(matrix, similarities, userIndex, courses, courseIndex) ==
    IF courseIndex > Len(courses) THEN <<>>
    ELSE LET weightedSum == RatedSum(matrix, similarities, courseIndex, TRUE, 1)
             similaritySum == RatedSum(matrix, similarities, courseIndex, FALSE, 1)
             predictedRating == IF similaritySum > 0 THEN weightedSum \div similaritySum ELSE 0
         IN  (IF /\ matrix[userIndex][courseIndex] = 0
                 /\ similaritySum > 0
                 /\ predictedRating > minSimilarityThreshold
              THEN << [courseId |-> courses[courseIndex].id, score |-> predictedRating,
                       reason |-> "similar users"] >>
              ELSE <<>>)
             \o generateCollaborativeRecsFrom(matrix, similarities, userIndex, courses,
                                              courseIndex + 1)

generateCollaborativeRecs(matrix, similarities, userIndex, courses) ==
    generateCollaborativeRecsFrom(matrix, similarities, userIndex, courses, 1)

\* users.findIndex(u => u._id.toString() === userId); 0 for -1
FindUserIndex(users, userId) ==
    LET at == {u \in 1..Len(users) : users[u].id = userId}
    IN  IF at = {} THEN 0 ELSE CHOOSE u \in at : \A v \in at : u <= v

\* variant: the first user of the snapshot stands in for an absent requester
collaborativeFiltering_FirstWhenAbsent(userId, users, courses, storeOk) ==
    IF ~storeOk THEN <<>>
    ELSE IF Len(users) < 2 \/ Len(courses) < 2 THEN <<>>
    ELSE LET userIndex == Max(FindUserIndex(users, userId), 1)
             matrix == buildInteractionMatrix(users, courses)
         IN  generateCollaborativeRecs(matrix,
                 calculateUserSimilarities(matrix, userIndex), userIndex, courses)

\* users, courses: what User.find({}) and Course.find({}) answer
collaborativeFiltering(userId, users, courses, storeOk) ==
    IF ~storeOk THEN <<>>
    ELSE IF Len(users) < 2 \/ Len(courses) < 2 THEN <<>>
    ELSE LET userIndex == FindUserIndex(users, userId)
         IN  IF userIndex = 0 THEN <<>>
             ELSE LET matrix == buildInteractionMatrix(users, courses)
                  IN  generateCollaborativeRecs(matrix,
                          calculateUserSimilarities(matrix, userIndex), userIndex, courses)

(***************************************************************************)
(* SkillExtractor.                                                         *)
(*                                                                         *)
(* A text is held by what the extractor's regular expressions and the NLP  *)
(* library find in it: for a string, the candidates each of the four       *)
(* extraction methods yields on it, and the level indicators found in the  *)
(* context windows of a skill.  A value that is no string is held by its   *)
(* JavaScript type.  Confidences and level scores are in hundredths.       *)
(***************************************************************************)
Threw(error) == [state |-> "threw", error |-> error]
Ok(value) == [state |-> "ok", value |-> value]

\* JavaScript arrays handed around as values carry their type
Arr(items) == [kind |-> "array", items |-> items]

LevelNames == <<"expert", "advanced", "intermediate", "beginner">>

\* levelIndicators[level].weight
LevelWeight(level) ==
    CASE level = "expert" -> 100
      [] level = "advanced" -> 80
      [] level = "intermediate" -> 60
      [] level = "beginner" -> 30

\* the chain of else-ifs that buckets a numeric "N years" match for one level
YearsCountFor(level, years) ==
    IF years >= 5 /\ level = "expert" THEN TRUE
    ELSE IF years >= 3 /\ level = "advanced" THEN TRUE
    ELSE IF years >= 1 /\ level = "intermediate" THEN TRUE
    ELSE years < 1 /\ level = "beginner"

\* levelScores[level]: keyword hits, year-phrase hits (weight * 0.8, the weights
\* being multiples of 0.1, 0.05) and numeric matches (0.8 each)
LevelScore(context, level) ==
    context.keywords[level] * LevelWeight(level)
    + context.yearPhrases[level] * ((LevelWeight(level) * 8) \div 10)
    + Cardinality({i \in 1..Len(context.years) : YearsCountFor(level, context.years[i])}) * 80

\* extractSkillContext(text, skillName): the joined context windows of the skill
extractSkillContext(text, skillName) == text.context

\* analyzeSkillLevel(text, skillName): the first level, in the order of
\* levelIndicators, among those of the highest score; intermediate when that
\* score is 0
analyzeSkillLevel(text, skillName) ==
    LET context == extractSkillContext(text, skillName)
        best == CHOOSE i \in 1..Len(LevelNames) :
                    /\ \A j \in 1..Len(LevelNames) :
                           LevelScore(context, LevelNames[i]) >= LevelScore(context, LevelNames[j])
                    /\ \A j \in 1..(i - 1) :
                           LevelScore(context, LevelNames[j]) < LevelScore(context, LevelNames[i])
    IN  IF LevelScore(context, LevelNames[best]) > 0 THEN LevelNames[best] ELSE "intermediate"

\* preprocessText(text): text.replace(...) of a value that is no string throws
preprocessText(text) ==
    IF text.kind = "string" THEN Ok(text)
    ELSE Threw("TypeError: text.replace")

\* the three extraction methods without a try of their own: a failure inside
\* one of them is thrown to extractSkills
extractDirectMatches(text) ==
    IF text.fails = "direct" THEN Threw("Error: extractDirectMatches")
    ELSE Ok(text.directMatches)
extractWithPatterns(text) ==
    IF text.fails = "pattern" THEN Threw("Error: extractWithPatterns")
    ELSE Ok(text.patternMatches)
extractWithContext(text) ==
    IF text.fails = "context" THEN Threw("Error: extractWithContext")
    ELSE Ok(text.contextMatches)
\* extractWithNLP catches what the NLP library throws and returns the skills
\* pushed so far: none, the library being called before the first push
extractWithNLP(text) ==
    IF text.fails = "nlp" THEN Ok(<<>>) ELSE Ok(text.nlpMatches)

\* the body of skills.forEach in combineAndDeduplicateSkills
DedupOne(skillMap, skill) ==
    LET key == ToLowerCase(skill.name)
        hit == {i \in 1..Len(skillMap) : ToLowerCase(skillMap[i].name) = key}
    IN  IF hit # {}
        THEN LET i == CHOOSE k \in hit : TRUE
             IN  [skillMap EXCEPT ![i] =
                     [@ EXCEPT !.confidence = Max(@, skill.confidence),
                               !.methods = Append(@, skill.method)]]
        ELSE Append(skillMap, [name |-> skill.name, confidence |-> skill.confidence,
                               method |-> skill.method, methods |-> <<skill.method>>])

RECURSIVE DedupSkills(_, _, _)
DedupSkills(skillMap, skills, i) ==
    IF i > Len(skills) THEN skillMap
    ELSE DedupSkills(DedupOne(skillMap, skills[i]), skills, i + 1)

RECURSIVE DedupArrays(_, _, _)
DedupArrays(skillMap, skillArrays, k) ==
    IF k > Len(skillArrays) THEN skillMap
    ELSE DedupArrays(DedupSkills(skillMap, skillArrays[k].items, 1), skillArrays, k + 1)

\* variant: the elements taken as the skills themselves and appended as they come
combineAndDeduplicateSkills_Concat(skillArrays) ==
    Ok([i \in 1..Len(skillArrays) |->
            [name |-> skillArrays[i].name, confidence |-> skillArrays[i].confidence,
             method |-> skillArrays[i].method, methods |-> <<skillArrays[i].method>>]])

\* combineAndDeduplicateSkills(skillArrays): skillArrays.forEach(skills =>
\* skills.forEach(...)) throws on an element that is no array
combineAndDeduplicateSkills(skillArrays) ==
    IF \E k \in 1..Len(skillArrays) : skillArrays[k].kind # "array"
    THEN Threw("TypeError: skills.forEach is not a function")
    ELSE Ok(DedupArrays(<<>>, skillArrays, 1))

DefaultExtractOptions ==
    [kind |-> "object", includeConfidence |-> TRUE, includeContext |-> FALSE,
     minConfidence |-> 30, maxSkills |-> 50]

\* Array.prototype.sort((a, b) => b.confidence - a.confidence): stable
InsertByConfidenceDesc(sorted, x) ==
    LET n == Cardinality({i \in 1..Len(sorted) : sorted[i].confidence >= x.confidence})
    IN  SubSeq(sorted, 1, n) \o <<x>> \o SubSeq(sorted, n + 1, Len(sorted))

RECURSIVE SortByConfidenceDesc(_)
SortByConfidenceDesc(s) ==
    IF s = <<>> THEN <<>>
    ELSE InsertByConfidenceDesc(SortByConfidenceDesc(SubSeq(s, 1, Len(s) - 1)), s[Len(s)])

RECURSIVE AtLeastConfidence(_, _, _)
AtLeastConfidence(skills, minConfidence, i) ==
    IF i > Len(skills) THEN <<>>
    ELSE (IF skills[i].confidence >= minConfidence THEN <<skills[i]>> ELSE <<>>)
         \o AtLeastConfidence(skills, minConfidence, i + 1)

\* the try block of extractSkills
ExtractSkillsTry(text, options) ==
    IF options.kind = "null" THEN Threw("TypeError: destructuring null")
    ELSE
    LET opts == IF options.kind = "undefined" THEN DefaultExtractOptions ELSE options
        cleaned == preprocessText(text)
    IN  IF cleaned.state = "threw" THEN cleaned
        ELSE
        LET cleanedText == cleaned.value
            directMatches == extractDirectMatches(cleanedText)
            patternMatches == extractWithPatterns(cleanedText)
            nlpMatches == extractWithNLP(cleanedText)
            contextMatches == extractWithContext(cleanedText)
        IN  IF directMatches.state = "threw" THEN directMatches
            ELSE IF patternMatches.state = "threw" THEN patternMatches
            ELSE IF nlpMatches.state = "threw" THEN nlpMatches
            ELSE IF contextMatches.state = "threw" THEN contextMatches
            ELSE
        LET \* the four results are spread into one flat array of skills
            extractedSkills ==
                directMatches.value \o patternMatches.value
                \o nlpMatches.value \o contextMatches.value
            combined == combineAndDeduplicateSkills(extractedSkills)
        IN  IF combined.state = "threw" THEN combined
            ELSE
            LET combinedSkills == combined.value
                leveled ==
                    IF opts.includeConfidence
                    THEN [i \in 1..Len(combinedSkills) |->
                            [name |-> combinedSkills[i].name,
                             confidence |-> combinedSkills[i].confidence,
                             methods |-> combinedSkills[i].methods,
                             level |-> analyzeSkillLevel(cleanedText, combinedSkills[i].name)]]
                    ELSE [i \in 1..Len(combinedSkills) |->
                            [name |-> combinedSkills[i].name,
                             confidence |-> combinedSkills[i].confidence,
                             methods |-> combinedSkills[i].methods,
                             level |-> "none"]]
            IN  Ok(Slice(SortByConfidenceDesc(AtLeastConfidence(leveled, opts.minConfidence, 1)),
                         opts.maxSkills))

\* variant: no catch around the body
extractSkills_NoCatch(text, options) ==
    LET r == ExtractSkillsTry(text, options)
    IN  IF r.state = "threw" THEN [state |-> "raised", error |-> r.error]
        ELSE [state |-> "returned", value |-> r.value]

\* extractSkills(text, options): the catch logs and returns []
extractSkills(text, options) ==
    LET r == ExtractSkillsTry(text, options)
    IN  IF r.state = "threw" THEN [state |-> "returned", value |-> <<>>]
        ELSE [state |-> "returned", value |-> r.value]

(***************************************************************************)
(* Specification SpecCombine: combineRecommendations applied to the four   *)
(* sources of generateRecommendations, the candidate lists drawn from a    *)
(* bounded set.                                                            *)
(***************************************************************************)
MaxCands == 3       \* candidates over the four sources together

CombineCourseIds == {"c1", "c2"}
ScoreSamples == {0, 50, 100, 150}

CombineCandidates ==
    [courseId : CombineCourseIds, score : ScoreSamples, reason : {"r"}]

\* the four candidate lists: a list of at most MaxCands candidates cut in four
CombineInputs ==
    { EngineSources(SubSeq(flat, 1, i), SubSeq(flat, i + 1, j),
                    SubSeq(flat, j + 1, k), SubSeq(flat, k + 1, Len(flat))) :
        <<flat, i, j, k>> \in
            { t \in SeqsUpTo(CombineCandidates, MaxCands) \X (0..MaxCands)
                        \X (0..MaxCands) \X (0..MaxCands) :
                t[2] <= t[3] /\ t[3] <= t[4] /\ t[4] <= Len(t[1]) } }

OthersIdleCombine ==
    /\ diversityArgs = Idle /\ diversityRet = Idle
    /\ filterArgs = Idle /\ filterRet = Idle
    /\ extractArgs = Idle /\ extractRet = Idle
    /\ EngineIdle /\ LevelIdle /\ CollabIdle /\ UserIdle
    /\ ScorerIdle /\ AnalyticsIdle /\ ScanIdle /\ SimIdle

InitCombine ==
    /\ combineArgs \in CombineInputs
    /\ combineRet = NotRun
    /\ OthersIdleCombine

CombineCall ==
    /\ combineRet = NotRun
    /\ combineRet' = [state |-> "returned", value |-> combineRecommendations(combineArgs)]
    /\ UNCHANGED <<combineArgs, diversityArgs, diversityRet, filterArgs, filterRet,
                   extractArgs, extractRet,
                   engineVars, levelVars, collabVars, userVars,
                   scorerVars, analyticsVars, scanVars, simVars>>

NextCombine == CombineCall

SpecCombine == InitCombine /\ [][NextCombine]_vars

\* every candidate score handed to combineRecommendations is in [0,1]
CombineScoresInUnit ==
    \A k \in 1..Len(combineArgs) : \A i \in 1..Len(combineArgs[k].recs) :
        combineArgs[k].recs[i].score >= 0 /\ combineArgs[k].recs[i].score <= One

\* C1: when every candidate score is in [0,1] and the weights are the fixed
\* 0.35/0.35/0.20/0.10, every score of the merged output of
\* combineRecommendations is in [0, sum of the weights], hence in [0,1].
C1_CombinedScoreInUnit ==
    (combineRet.state = "returned" /\ CombineScoresInUnit) =>
        \A i \in 1..Len(combineRet.value) :
            /\ combineRet.value[i].score >= 0
            /\ combineRet.value[i].score <= SumOfWeights * One
            /\ combineRet.value[i].score <= OneCombined

RECURSIVE WeightedSumOf(_, _, _, _)
\* the sum of score * weight over the candidates of a course in recs[i..]
WeightedSumOf(recs, weight, courseId, i) ==
    IF i > Len(recs) THEN 0
    ELSE (IF recs[i].courseId = courseId THEN recs[i].score * weight ELSE 0)
         + WeightedSumOf(recs, weight, courseId, i + 1)

RECURSIVE WeightedSumOver(_, _, _)
WeightedSumOver(sources, courseId, k) ==
    IF k > Len(sources) THEN 0
    ELSE WeightedSumOf(sources[k].recs, sources[k].weight, courseId, 1)
         + WeightedSumOver(sources, courseId, k + 1)

CourseIdsOf(sources) ==
    {sources[k].recs[i].courseId : <<k, i>> \in
        {t \in (1..Len(sources)) \X (1..MaxCands) : t[2] <= Len(sources[t[1]].recs)}}

\* C16: combineRecommendations returns exactly one entry per distinct
\* courseId occurring in a source; the entry's score is the sum, over the
\* candidates of that course, of candidate score times the weight of the
\* candidate's source; the list is sorted by score, non-increasing.
C16_OneEntryPerCourseSummedSorted ==
    combineRet.state = "returned" =>
        /\ {combineRet.value[i].courseId : i \in 1..Len(combineRet.value)}
               = CourseIdsOf(combineArgs)
        /\ \A i, j \in 1..Len(combineRet.value) :
               combineRet.value[i].courseId = combineRet.value[j].courseId => i = j
        /\ \A i \in 1..Len(combineRet.value) :
               combineRet.value[i].score
                   = WeightedSumOver(combineArgs, combineRet.value[i].courseId, 1)
        /\ \A i, j \in 1..Len(combineRet.value) :
               i < j => combineRet.value[i].score >= combineRet.value[j].score

\* combineRecommendations has merged a course that two sources propose with
\* another course of a higher merged score that comes later in the sources
C16_Witness ==
    /\ combineRet.state = "returned"
    /\ Len(combineRet.value) = 2
    /\ Len(combineRet.value[2].sources) = 2
    /\ combineRet.value[2].sources[1].type # combineRet.value[2].sources[2].type
    /\ combineRet.value[2].sources[1].score > 0
    /\ combineRet.value[2].sources[2].score > 0
    /\ combineRet.value[1].score > combineRet.value[2].score
    /\ combineArgs[1].recs # <<>>
    /\ combineArgs[1].recs[1].courseId = combineRet.value[2].courseId


(***************************************************************************)
(* Specification SpecDiversity: applyDiversityFilter applied to a          *)
(* score-sorted candidate list, over a Course collection drawn from a      *)
(* bounded set of course documents.                                        *)
(***************************************************************************)
MaxDivRecs == 3     \* candidates handed to the filter

CourseIdAt(i) == IF i = 1 THEN "c1" ELSE IF i = 2 THEN "c2" ELSE IF i = 3 THEN "c3"
                 ELSE IF i = 4 THEN "c4" ELSE "c5"

DiversityFactors == {0, 30, 100}    \* 0, the default 0.3, 1

SkillListSamples ==
    { <<>>, <<"java">>, <<"java", "javascript">>, <<"Java", "java">> }

CourseSamples ==
    [category : {"ai", "web"}, difficulty : {"beginner", "advanced"},
     skills : SkillListSamples]

\* n candidates in descending score order
DivRecsOfLen(n) == [i \in 1..n |-> [courseId |-> CourseIdAt(i), score |-> (n - i + 1) * 1000]]

DiversityInputs ==
    UNION { [recommendations : {DivRecsOfLen(n)},
             diversityFactor : DiversityFactors,
             collection : [{CourseIdAt(i) : i \in 1..n} -> CourseSamples \cup {NoCourse}]] :
            n \in 0..MaxDivRecs }

InitDiversity ==
    /\ diversityArgs \in DiversityInputs
    /\ diversityRet = NotRun
    /\ combineArgs = Idle /\ combineRet = Idle
    /\ filterArgs = Idle /\ filterRet = Idle
    /\ extractArgs = Idle /\ extractRet = Idle
    /\ EngineIdle /\ LevelIdle /\ CollabIdle /\ UserIdle
    /\ ScorerIdle /\ AnalyticsIdle /\ ScanIdle /\ SimIdle

\* the call, Course.find answering
DiversityCall ==
    /\ diversityRet = NotRun
    /\ diversityRet' = applyDiversityFilter(diversityArgs.recommendations,
                            diversityArgs.diversityFactor, diversityArgs.collection, TRUE)
    /\ UNCHANGED <<combineArgs, combineRet, diversityArgs, filterArgs, filterRet,
                   extractArgs, extractRet,
                   engineVars, levelVars, collabVars, userVars,
                   scorerVars, analyticsVars, scanVars, simVars>>

\* the call, Course.find rejecting
DiversityCallStoreError ==
    /\ diversityRet = NotRun
    /\ Len(diversityArgs.recommendations) > 1
    /\ diversityRet' = applyDiversityFilter(diversityArgs.recommendations,
                            diversityArgs.diversityFactor, diversityArgs.collection, FALSE)
    /\ UNCHANGED <<combineArgs, combineRet, diversityArgs, filterArgs, filterRet,
                   extractArgs, extractRet,
                   engineVars, levelVars, collabVars, userVars,
                   scorerVars, analyticsVars, scanVars, simVars>>

NextDiversity == DiversityCall \/ DiversityCallStoreError

SpecDiversity == InitDiversity /\ [][NextDiversity]_vars

\* C2: for every non-empty score-sorted candidate list and every
\* diversityFactor, the list applyDiversityFilter returns contains the first
\* (highest-scored) candidate of its input.
C2_TopCandidateKept ==
    (diversityRet.state = "returned" /\ Len(diversityArgs.recommendations) >= 1) =>
        \E k \in 1..Len(diversityRet.value) :
            diversityRet.value[k] = diversityArgs.recommendations[1]

\* the filter ran its loop, dropped a later candidate, and the top candidate has
\* no document in the collection
C2_Witness ==
    /\ diversityRet.state = "returned"
    /\ Len(diversityArgs.recommendations) >= 2
    /\ Len(diversityRet.value) < Len(diversityArgs.recommendations)
    /\ diversityArgs.collection[diversityArgs.recommendations[1].courseId] = NoCourse
    /\ diversityRet.value[1] = diversityArgs.recommendations[1]

\* the candidates' courses all exist and are pairwise identical in category,
\* skills and difficulty
DivPairwiseIdentical ==
    /\ \A c \in DOMAIN diversityArgs.collection : diversityArgs.collection[c] # NoCourse
    /\ \A c, d \in DOMAIN diversityArgs.collection :
           diversityArgs.collection[c] = diversityArgs.collection[d]

\* the skill list of course c names no skill twice (names compared in lower case)
NoRepeatedSkill(course) ==
    \A i, j \in 1..Len(course.skills) :
        ToLowerCase(course.skills[i]) = ToLowerCase(course.skills[j]) => i = j

\* C3 as stated: with diversityFactor = 0 on pairwise identical candidates the
\* result contains only the top candidate.
C3_OnlyTopAtFactorZero ==
    (/\ diversityRet.state = "returned"
     /\ diversityArgs.diversityFactor = 0
     /\ Len(diversityArgs.recommendations) >= 1
     /\ DivPairwiseIdentical)
        => diversityRet.value = <<diversityArgs.recommendations[1]>>

\* C3 amended: with diversityFactor = 0 on pairwise identical candidates, every
\* candidate is accepted when the common skill list names no skill twice (the
\* similarity of identical courses is then at most 1, never > 1 - 0); nothing
\* beyond the top candidate is accepted only when the common skill list
\* repeats a name (the similarity is then above 1).
C3_AllKeptAtFactorZero ==
    (/\ diversityRet.state = "returned"
     /\ diversityArgs.diversityFactor = 0
     /\ Len(diversityArgs.recommendations) >= 1
     /\ DivPairwiseIdentical)
        => LET top == diversityArgs.recommendations[1]
           IN  IF NoRepeatedSkill(diversityArgs.collection[top.courseId])
               THEN diversityRet.value = diversityArgs.recommendations
               ELSE diversityRet.value = <<top>>

\* three identical courses with a non-empty skill list, factor 0, all returned
C3_Witness ==
    /\ diversityRet.state = "returned"
    /\ diversityArgs.diversityFactor = 0
    /\ Len(diversityArgs.recommendations) >= 3
    /\ DivPairwiseIdentical
    /\ diversityArgs.collection["c1"].skills = <<"java", "javascript">>
    /\ Len(diversityRet.value) = Len(diversityArgs.recommendations)

\* the i-th candidate of the input is in the returned list
DivAccepted(i) ==
    \E k \in 1..Len(diversityRet.value) :
        diversityRet.value[k] = diversityArgs.recommendations[i]

\* the i-th candidate's course document is in the collection
DivHasCourse(i) ==
    diversityArgs.collection[diversityArgs.recommendations[i].courseId] # NoCourse

\* similarity of the i-th and j-th candidates' courses <= 1 - diversityFactor
DivWithinThreshold(i, j) ==
    LET similarity ==
            calculateCourseSimilarity(
                diversityArgs.collection[diversityArgs.recommendations[i].courseId],
                diversityArgs.collection[diversityArgs.recommendations[j].courseId])
    IN  similarity.num <= (One - diversityArgs.diversityFactor) * similarity.den

\* the returned list is a subsequence of the input, the input being in
\* descending score order
DivSubsequenceOfSortedInput ==
    /\ \A i, j \in 1..Len(diversityArgs.recommendations) :
           i < j => diversityArgs.recommendations[i].score >= diversityArgs.recommendations[j].score
    /\ \A k \in 1..Len(diversityRet.value) :
           \E i \in 1..Len(diversityArgs.recommendations) :
               diversityRet.value[k] = diversityArgs.recommendations[i]
    /\ \A k, l \in 1..Len(diversityRet.value) :
           k < l => diversityRet.value[k].score > diversityRet.value[l].score

\* C17: a candidate after the first is accepted if and only if the
\* similarity of its course to the course of every already-accepted
\* candidate is <= 1 - diversityFactor; the candidates are examined in
\* descending score order and the accepted list is a subsequence of the
\* input.  (A pair without both course documents has no similarity.)
C17_AcceptedIffWithinThreshold ==
    (diversityRet.state = "returned" /\ Len(diversityArgs.recommendations) >= 1) =>
        /\ DivSubsequenceOfSortedInput
        /\ \A i \in 2..Len(diversityArgs.recommendations) :
               DivAccepted(i) <=>
                   \A j \in 1..(i - 1) :
                       (DivAccepted(j) /\ DivHasCourse(i) /\ DivHasCourse(j))
                           => DivWithinThreshold(i, j)

\* C17, amended: a candidate after the first is accepted if and only if its
\* course document is found and the similarity of its course to the course
\* of every already-accepted candidate whose document is found is
\* <= 1 - diversityFactor.
C17_AcceptedIffFoundAndWithinThreshold ==
    (diversityRet.state = "returned" /\ Len(diversityArgs.recommendations) >= 1) =>
        /\ DivSubsequenceOfSortedInput
        /\ \A i \in 2..Len(diversityArgs.recommendations) :
               DivAccepted(i) <=>
                   /\ DivHasCourse(i)
                   /\ \A j \in 1..(i - 1) :
                          (DivAccepted(j) /\ DivHasCourse(j)) => DivWithinThreshold(i, j)

\* the filter has run with the default factor on three candidates whose
\* documents are all found: the second is accepted, and the third is
\* rejected for its similarity to the first while it is within the
\* threshold of the second
C17_Witness ==
    /\ diversityRet.state = "returned"
    /\ diversityArgs.diversityFactor = 30
    /\ Len(diversityArgs.recommendations) = 3
    /\ \A i \in 1..3 : DivHasCourse(i)
    /\ DivAccepted(2)
    /\ ~DivAccepted(3)
    /\ ~DivWithinThreshold(3, 1)
    /\ DivWithinThreshold(3, 2)


(***************************************************************************)
(* Specification SpecFilter: filterCompletedCourses applied to a candidate *)
(* list and a learning history drawn from bounded sets.                    *)
(***************************************************************************)
MaxFilterRecs == 2  \* candidates handed to the filter
MaxHistory == 2     \* learning-history entries

FilterCourseIds == {"c1", "c2", "c3"}
HistoryStatuses == {"enrolled", "in-progress", "completed", "dropped", "paused"}

FilterInputs ==
    [recommendations : SeqsUpTo([courseId : FilterCourseIds, score : {1000}], MaxFilterRecs),
     learningHistory : SeqsUpTo([courseId : FilterCourseIds, status : HistoryStatuses],
                                MaxHistory)]

InitFilter ==
    /\ filterArgs \in FilterInputs
    /\ filterRet = NotRun
    /\ combineArgs = Idle /\ combineRet = Idle
    /\ diversityArgs = Idle /\ diversityRet = Idle
    /\ extractArgs = Idle /\ extractRet = Idle
    /\ EngineIdle /\ LevelIdle /\ CollabIdle /\ UserIdle
    /\ ScorerIdle /\ AnalyticsIdle /\ ScanIdle /\ SimIdle

FilterCall ==
    /\ filterRet = NotRun
    /\ filterRet' = [state |-> "returned",
                     value |-> filterCompletedCourses(filterArgs.recommendations,
                                                      filterArgs.learningHistory)]
    /\ UNCHANGED <<combineArgs, combineRet, diversityArgs, diversityRet, filterArgs,
                   extractArgs, extractRet,
                   engineVars, levelVars, collabVars, userVars,
                   scorerVars, analyticsVars, scanVars, simVars>>

NextFilter == FilterCall

SpecFilter == InitFilter /\ [][NextFilter]_vars

\* the positions of the candidates whose courseId has no completed history entry
FilterKeptPositions ==
    { i \in 1..Len(filterArgs.recommendations) :
        ~\E j \in 1..Len(filterArgs.learningHistory) :
            /\ filterArgs.learningHistory[j].status = "completed"
            /\ filterArgs.learningHistory[j].courseId = filterArgs.recommendations[i].courseId }

\* C4: filterCompletedCourses returns exactly the candidates whose courseId is
\* not the courseId of a history entry with status "completed", in their
\* original order; entries of any other status remove nothing.
C4_FilterRemovesExactlyCompleted ==
    filterRet.state = "returned" =>
        /\ Len(filterRet.value) = Cardinality(FilterKeptPositions)
        /\ \A i \in FilterKeptPositions :
               filterRet.value[Cardinality({k \in FilterKeptPositions : k <= i})]
                   = filterArgs.recommendations[i]

\* a call that removed a completed course and kept one that is in the history
\* with another status
C4_Witness ==
    /\ filterRet.state = "returned"
    /\ Len(filterArgs.recommendations) = 2
    /\ Len(filterRet.value) = 1
    /\ \E j \in 1..Len(filterArgs.learningHistory) :
           /\ filterArgs.learningHistory[j].courseId = filterRet.value[1].courseId
           /\ filterArgs.learningHistory[j].status = "in-progress"


(***************************************************************************)
(* Specification SpecExtract: extractSkills applied to a text and options  *)
(* drawn from bounded sets.                                                *)
(***************************************************************************)
MaxFound == 2       \* candidates the four methods find in a text, together

DirectCandidates ==
    [kind : {"object"}, name : {"python", "machine learning"}, confidence : {90},
     method : {"direct_match"}]
    \cup [kind : {"object"}, name : {"machine learning"}, confidence : {70},
          method : {"partial_match"}]
PatternCandidates ==
    [kind : {"object"}, name : {"Python", "java"}, confidence : {70},
     method : {"pattern_match"}]
\* similarity * 0.6 with similarity in (0.7, 1]
NlpCandidates ==
    [kind : {"object"}, name : {"python", "java"}, confidence : {45, 60},
     method : {"nlp_match"}]
\* 0.8 * similarity with similarity in (0.7, 1]
SectionCandidates ==
    [kind : {"object"}, name : {"python", "java"}, confidence : {60, 80},
     method : {"section_extraction"}]

MethodRank(method) ==
    CASE method \in {"direct_match", "partial_match"} -> 1
      [] method = "pattern_match" -> 2
      [] method = "nlp_match" -> 3
      [] method = "section_extraction" -> 4

RECURSIVE OfRank(_, _, _)
OfRank(found, rank, i) ==
    IF i > Len(found) THEN <<>>
    ELSE (IF MethodRank(found[i].method) = rank THEN <<found[i]>> ELSE <<>>)
         \o OfRank(found, rank, i + 1)

NoIndicators ==
    [keywords |-> [l \in Range(LevelNames) |-> 0],
     yearPhrases |-> [l \in Range(LevelNames) |-> 0],
     years |-> <<>>]

ContextSamples == {NoIndicators, [NoIndicators EXCEPT !.years = <<6>>]}

\* the extraction method that fails on a text, if one does
MethodFailures == {"none", "direct", "pattern", "nlp", "context"}

StringTexts ==
    { [kind |-> "string", empty |-> e,
       directMatches |-> OfRank(found, 1, 1), patternMatches |-> OfRank(found, 2, 1),
       nlpMatches |-> OfRank(found, 3, 1), contextMatches |-> OfRank(found, 4, 1),
       context |-> ctx, fails |-> f] :
        <<found, ctx, e, f>> \in
            { t \in SeqsUpTo(DirectCandidates \cup PatternCandidates \cup NlpCandidates
                                \cup SectionCandidates, MaxFound)
                    \X ContextSamples \X BOOLEAN \X MethodFailures :
                /\ \A i, j \in 1..Len(t[1]) :
                       i < j => MethodRank(t[1][i].method) <= MethodRank(t[1][j].method)
                \* nothing is found in the empty string
                /\ t[3] => (t[1] = <<>> /\ t[2] = NoIndicators) } }

NonStringTexts == { [kind |-> k] : k \in {"null", "undefined", "number", "object"} }

ExtractOptionSamples ==
    { [kind |-> "undefined"], [kind |-> "null"], DefaultExtractOptions,
      [kind |-> "object", includeConfidence |-> FALSE, includeContext |-> TRUE,
       minConfidence |-> 0, maxSkills |-> 1] }

InitExtract ==
    /\ extractArgs \in [text : StringTexts \cup NonStringTexts, options : ExtractOptionSamples]
    /\ extractRet = NotRun
    /\ combineArgs = Idle /\ combineRet = Idle
    /\ diversityArgs = Idle /\ diversityRet = Idle
    /\ filterArgs = Idle /\ filterRet = Idle
    /\ EngineIdle /\ LevelIdle /\ CollabIdle /\ UserIdle
    /\ ScorerIdle /\ AnalyticsIdle /\ ScanIdle /\ SimIdle

ExtractCall ==
    /\ extractRet = NotRun
    /\ extractRet' = extractSkills(extractArgs.text, extractArgs.options)
    /\ UNCHANGED <<combineArgs, combineRet, diversityArgs, diversityRet, filterArgs,
                   filterRet, extractArgs,
                   engineVars, levelVars, collabVars, userVars,
                   scorerVars, analyticsVars, scanVars, simVars>>

NextExtract == ExtractCall

SpecExtract == InitExtract /\ [][NextExtract]_vars

C10_NeverRaisesEmptyForNonString ==
    extractRet # NotRun =>
        /\ extractRet.state = "returned"
        /\ (extractArgs.text.kind # "string" \/ extractArgs.text.empty)
               => extractRet.value = <<>>

\* extractSkills has run on null and on the empty string
C10_Witness ==
    /\ extractRet.state = "returned"
    /\ extractArgs.text.kind = "null" \/ (extractArgs.text.kind = "string" /\ extractArgs.text.empty)
    /\ extractRet.value = <<>>

\* the candidates the methods that do not fail find in a text
CandidatesOfOthers(text) ==
    (IF text.fails = "direct" THEN <<>> ELSE text.directMatches)
    \o (IF text.fails = "pattern" THEN <<>> ELSE text.patternMatches)
    \o (IF text.fails = "nlp" THEN <<>> ELSE text.nlpMatches)
    \o (IF text.fails = "context" THEN <<>> ELSE text.contextMatches)

NamesIn(skills) == {ToLowerCase(skills[i].name) : i \in 1..Len(skills)}

\* C11: when one of the four extraction methods fails during extractSkills
\* (default options), that method contributes no candidate and the result
\* still contains the skills the other three methods find.
C11_FailedMethodIsolated ==
    (/\ extractRet # NotRun
     /\ extractArgs.text.kind = "string"
     /\ extractArgs.text.fails # "none"
     /\ extractArgs.options.kind = "undefined")
        => /\ extractRet.state = "returned"
           /\ NamesIn(extractRet.value) = NamesIn(CandidatesOfOthers(extractArgs.text))

\* C20: for every text in which extractDirectMatches finds a catalog entry
\* (the text contains it as an exact substring), the list extractSkills
\* returns with default options contains a skill of that name with
\* confidence 0.9.
C20_DirectMatchReturnedAtNineTenths ==
    (/\ extractRet # NotRun
     /\ extractArgs.text.kind = "string"
     /\ extractArgs.text.fails = "none"
     /\ extractArgs.options.kind = "undefined")
        => \A i \in 1..Len(extractArgs.text.directMatches) :
               extractArgs.text.directMatches[i].method = "direct_match"
                   => /\ extractRet.state = "returned"
                      /\ \E k \in 1..Len(extractRet.value) :
                             /\ ToLowerCase(extractRet.value[k].name)
                                    = ToLowerCase(extractArgs.text.directMatches[i].name)
                             /\ extractRet.value[k].confidence = 90

(***************************************************************************)
(* User documents: profile.skills under addSkill and updateSkillLevel.     *)
(* Confidences are in hundredths.                                          *)
(***************************************************************************)
\* skillSchema.name: { lowercase: true, trim: true }, the setters applied when
\* a value becomes a subdocument of profile.skills
SkillNameSetter(name) == Trim(ToLowerCase(name))

\* the cast of a plain object to a skill subdocument
CastSkill(skill) == [skill EXCEPT !.name = SkillNameSetter(@)]

\* findIndex(skill => skill.name.toLowerCase() === name.toLowerCase()); 0 for -1
FindSkillIndex(skills, name) ==
    LET hit == {i \in 1..Len(skills) : ToLowerCase(skills[i].name) = ToLowerCase(name)}
    IN  IF hit = {} THEN 0 ELSE CHOOSE i \in hit : \A j \in hit : i <= j

\* addSkill(skillData), skillData carrying name, level and confidence: the
\* fields of skillData replace those of the skill found, or a skill is pushed
addSkill(skills, skillData) ==
    LET existingSkillIndex == FindSkillIndex(skills, skillData.name)
    IN  IF existingSkillIndex >= 1
        THEN [skills EXCEPT ![existingSkillIndex] = CastSkill(skillData)]
        ELSE Append(skills, CastSkill(skillData))

NullConfidence == [kind |-> "null"]

\* updateSkillLevel(skillName, newLevel, confidence = null)
updateSkillLevel(skills, skillName, newLevel, confidence) ==
    LET at == FindSkillIndex(skills, skillName)
    IN  IF at >= 1
        THEN [skills EXCEPT ![at] =
                 [@ EXCEPT !.level = newLevel,
                           !.confidence = IF confidence # NullConfidence
                                          THEN confidence.value ELSE @]]
        ELSE skills

(***************************************************************************)
(* Specification SpecUser: addSkill and updateSkillLevel called in any     *)
(* order on a User document whose profile.skills has no duplicate name.    *)
(***************************************************************************)
MaxSkillOps == 3    \* calls of addSkill and updateSkillLevel on the document

SkillNameSamples == {"python", "Python", "python ", "java"}
ConfidenceSamples == {30, 90}

SkillDataSamples ==
    [name : SkillNameSamples, level : {"intermediate"}, confidence : ConfidenceSamples]

InitialSkills ==
    {<<>>, <<[name |-> "python", level |-> "beginner", confidence |-> 50]>>}

\* the confidence stored for a name before a call; NullConfidence when absent
StoredConfidence(skills, name) ==
    IF FindSkillIndex(skills, name) = 0 THEN NullConfidence
    ELSE [kind |-> "number", value |-> skills[FindSkillIndex(skills, name)].confidence]

InitUser ==
    /\ profileSkills \in InitialSkills
    /\ lastOp = [method |-> "none", count |-> 0]
    /\ combineArgs = Idle /\ combineRet = Idle
    /\ diversityArgs = Idle /\ diversityRet = Idle
    /\ filterArgs = Idle /\ filterRet = Idle
    /\ extractArgs = Idle /\ extractRet = Idle
    /\ EngineIdle /\ LevelIdle /\ CollabIdle
    /\ ScorerIdle /\ AnalyticsIdle /\ ScanIdle /\ SimIdle

AddSkillCall(skillData) ==
    /\ lastOp.count < MaxSkillOps
    /\ profileSkills' = addSkill(profileSkills, skillData)
    /\ lastOp' = [method |-> "addSkill", count |-> lastOp.count + 1,
                  name |-> skillData.name,
                  confidence |-> [kind |-> "number", value |-> skillData.confidence],
                  at |-> FindSkillIndex(profileSkills, skillData.name),
                  previous |-> StoredConfidence(profileSkills, skillData.name)]
    /\ UNCHANGED <<combineArgs, combineRet, diversityArgs, diversityRet, filterArgs,
                   filterRet, extractArgs, extractRet,
                   engineVars, levelVars, collabVars,
                   scorerVars, analyticsVars, scanVars, simVars>>

UpdateSkillLevelCall(skillName, newLevel, confidence) ==
    /\ lastOp.count < MaxSkillOps
    /\ profileSkills' = updateSkillLevel(profileSkills, skillName, newLevel, confidence)
    /\ lastOp' = [method |-> "updateSkillLevel", count |-> lastOp.count + 1,
                  name |-> skillName, confidence |-> confidence,
                  at |-> FindSkillIndex(profileSkills, skillName),
                  previous |-> StoredConfidence(profileSkills, skillName)]
    /\ UNCHANGED <<combineArgs, combineRet, diversityArgs, diversityRet, filterArgs,
                   filterRet, extractArgs, extractRet,
                   engineVars, levelVars, collabVars,
                   scorerVars, analyticsVars, scanVars, simVars>>

NextUser ==
    \/ \E skillData \in SkillDataSamples : AddSkillCall(skillData)
    \/ \E skillName \in SkillNameSamples,
          confidence \in {NullConfidence} \cup
                         {[kind |-> "number", value |-> c] : c \in ConfidenceSamples} :
           UpdateSkillLevelCall(skillName, "advanced", confidence)

SpecUser == InitUser /\ [][NextUser]_vars

\* C12: after an addSkill or updateSkillLevel call that names a skill already
\* present (same canonical name) and gives a confidence, the stored
\* confidence of that skill is the maximum of the previous and the new one;
\* a call never lowers it.
C12_ConfidenceIsMaxOfPreviousAndNew ==
    (/\ lastOp.method \in {"addSkill", "updateSkillLevel"}
     /\ lastOp.at >= 1
     /\ lastOp.confidence # NullConfidence)
        => profileSkills[lastOp.at].confidence
               = Max(lastOp.previous.value, lastOp.confidence.value)

\* C13: from a profile with no two skills of one canonical name, after any
\* sequence of addSkill calls (names differing in case or in trailing
\* whitespace), profile.skills has at most one skill per canonical
\* (lower-cased, trimmed) name.
C13_OneSkillPerCanonicalName ==
    \A i, j \in 1..Len(profileSkills) :
        Trim(ToLowerCase(profileSkills[i].name)) = Trim(ToLowerCase(profileSkills[j].name))
            => i = j

(***************************************************************************)
(* Specification SpecLevel: analyzeSkillLevel applied to a text whose      *)
(* context window holds level keywords and at most one "N years of         *)
(* <skill>" phrase; the call is then repeated on the same text with a      *)
(* larger N.                                                               *)
(***************************************************************************)
YearsSamples == {0, 1, 2, 3, 4, 5, 6, 11}

\* the context window of a text with the given number of keywords of each
\* level and the phrase "N years of <skill>" for each N of years: the year
\* phrase '1 year' of the beginner level is a substring of "1 years" and of
\* "11 years", and no other year phrase is one of "N years"
ContextWith(keywords, years) ==
    [keywords |-> keywords,
     yearPhrases |->
         [l \in Range(LevelNames) |->
             IF l = "beginner"
             THEN Cardinality({i \in 1..Len(years) : years[i] % 10 = 1})
             ELSE 0],
     years |-> years]

LevelTexts ==
    { [kind |-> "string", context |-> ContextWith(keywords, years)] :
        keywords \in [Range(LevelNames) -> {0, 1}],
        years \in {<<>>} \cup { <<n>> : n \in YearsSamples } }

\* levelScores, as analyzeSkillLevel computes them for the skill's context
levelScores(text, skillName) ==
    [l \in Range(LevelNames) |-> LevelScore(extractSkillContext(text, skillName), l)]

InitLevel ==
    /\ levelArgs \in [text : LevelTexts, skillName : {"python"}, before : {NotRun}]
    /\ levelRet = NotRun
    /\ combineArgs = Idle /\ combineRet = Idle
    /\ diversityArgs = Idle /\ diversityRet = Idle
    /\ filterArgs = Idle /\ filterRet = Idle
    /\ extractArgs = Idle /\ extractRet = Idle
    /\ EngineIdle /\ CollabIdle /\ UserIdle
    /\ ScorerIdle /\ AnalyticsIdle /\ ScanIdle /\ SimIdle

AnalyzeSkillLevelCall ==
    /\ levelRet = NotRun
    /\ levelRet' = [state |-> "returned",
                    value |-> analyzeSkillLevel(levelArgs.text, levelArgs.skillName),
                    levelScores |-> levelScores(levelArgs.text, levelArgs.skillName)]
    /\ UNCHANGED <<levelArgs, combineArgs, combineRet, diversityArgs, diversityRet,
                   filterArgs, filterRet, extractArgs, extractRet,
                   engineVars, collabVars, userVars,
                   scorerVars, analyticsVars, scanVars, simVars>>

\* the same text with a larger number in its "N years of <skill>" phrase
RestateYears(n) ==
    /\ levelRet # NotRun
    /\ levelArgs.before = NotRun
    /\ Len(levelArgs.text.context.years) = 1
    /\ n > levelArgs.text.context.years[1]
    /\ levelArgs' =
           [levelArgs EXCEPT
               !.text = [@ EXCEPT !.context = ContextWith(@.keywords, <<n>>)],
               !.before = [years |-> levelArgs.text.context.years[1],
                           value |-> levelRet.value]]
    /\ levelRet' = NotRun
    /\ UNCHANGED <<combineArgs, combineRet, diversityArgs, diversityRet,
                   filterArgs, filterRet, extractArgs, extractRet,
                   engineVars, collabVars, userVars,
                   scorerVars, analyticsVars, scanVars, simVars>>

NextLevel ==
    \/ AnalyzeSkillLevelCall
    \/ \E n \in YearsSamples : RestateYears(n)

SpecLevel == InitLevel /\ [][NextLevel]_vars

\* beginner < intermediate < advanced < expert
LevelOrder(level) ==
    CASE level = "beginner" -> 1
      [] level = "intermediate" -> 2
      [] level = "advanced" -> 3
      [] level = "expert" -> 4

\* C14: for two texts that differ only in the number N of an "N years of
\* <skill>" phrase, the level analyzeSkillLevel returns for the smaller N is
\* not higher than the level it returns for the larger N.
C14_MonotonicInYears ==
    (levelRet # NotRun /\ levelArgs.before # NotRun)
        => LevelOrder(levelArgs.before.value) <= LevelOrder(levelRet.value)

HighestScore(scores) ==
    CHOOSE m \in {scores[l] : l \in DOMAIN scores} : \A l \in DOMAIN scores : scores[l] <= m

\* C18: analyzeSkillLevel returns the level whose score is strictly the
\* highest; when two or more levels share the highest score, or all four
\* scores are zero, it returns "intermediate".
C18_StrictlyHighestElseIntermediate ==
    levelRet # NotRun =>
        LET scores == levelRet.levelScores
            top == {l \in DOMAIN scores : scores[l] = HighestScore(scores)}
        IN  IF Cardinality(top) = 1 /\ HighestScore(scores) > 0
            THEN levelRet.value \in top
            ELSE levelRet.value = "intermediate"

\* the bucket of a number of years
YearsBucket(n) ==
    IF n >= 5 THEN "expert" ELSE IF n >= 3 THEN "advanced"
    ELSE IF n >= 1 THEN "intermediate" ELSE "beginner"

\* C19: a numeric "N years" mention adds 0.8 to the score of the bucket of N
\* (N >= 5 expert, 3 <= N < 5 advanced, 1 <= N < 3 intermediate, N < 1
\* beginner) and nothing to the scores of the other three levels.
C19_YearsAddToOneBucket ==
    (levelRet # NotRun /\ Len(levelArgs.text.context.years) = 1)
        => \A l \in Range(LevelNames) :
               levelRet.levelScores[l]
                   = levelArgs.text.context.keywords[l] * LevelWeight(l)
                     + levelArgs.text.context.yearPhrases[l] * ((LevelWeight(l) * 8) \div 10)
                     + (IF l = YearsBucket(levelArgs.text.context.years[1]) THEN 80 ELSE 0)

(***************************************************************************)
(* Specification SpecCollab: collaborativeFiltering applied to a userId    *)
(* and a snapshot of users and courses drawn from bounded sets.            *)
(***************************************************************************)
MaxCollabUsers == 2     \* users in the snapshot

CollabUserSamples ==
    { UserDoc(<<>>), UserDoc(<<HistoryEntry("c1", "completed")>>), OtherUser,
      UserDoc(<<HistoryEntry("c1", "completed"), HistoryEntry("c2", "enrolled")>>),
      [id |-> "u3", learningHistory |-> <<HistoryEntry("c1", "completed"),
                                          HistoryEntry("c3", "in-progress")>>],
      \* rated 5 and three hours spent; rated 1 and half an hour spent
      [id |-> "u4", learningHistory |->
          << [HistoryEntry("c1", "completed") EXCEPT !.rating = 5, !.timeSpent = 10800],
             [HistoryEntry("c2", "in-progress") EXCEPT !.rating = 1, !.timeSpent = 1800],
             HistoryEntry("c3", "completed") >>],
      \* two entries for one course, and an entry that is merely enrolled
      [id |-> "u5", learningHistory |->
          << HistoryEntry("c1", "in-progress"), HistoryEntry("c1", "completed"),
             HistoryEntry("c2", "enrolled") >>],
      \* a requester who has completed the third course only
      UserDoc(<<HistoryEntry("c3", "completed")>>) }

\* what Course.find({}) answers: the first n courses of the catalog
CollabCourseSamples == { SubSeq(Catalog, 1, n) : n \in 0..Len(Catalog) }

CollabUserIds == {"u1", "u0"}     \* "u0" is in no snapshot

InitCollab ==
    /\ collabArgs \in [userId : CollabUserIds,
                       users : SeqsUpTo(CollabUserSamples, MaxCollabUsers),
                       courses : CollabCourseSamples,
                       storeOk : BOOLEAN]
    \* the documents of a snapshot have distinct ids
    /\ \A u, v \in 1..Len(collabArgs.users) :
           collabArgs.users[u].id = collabArgs.users[v].id => u = v
    /\ collabRet = NotRun
    /\ combineArgs = Idle /\ combineRet = Idle
    /\ diversityArgs = Idle /\ diversityRet = Idle
    /\ filterArgs = Idle /\ filterRet = Idle
    /\ extractArgs = Idle /\ extractRet = Idle
    /\ EngineIdle /\ LevelIdle /\ UserIdle
    /\ ScorerIdle /\ AnalyticsIdle /\ ScanIdle /\ SimIdle

CollaborativeFilteringCall ==
    /\ collabRet = NotRun
    /\ collabRet' = [state |-> "returned",
                     value |-> collaborativeFiltering(collabArgs.userId, collabArgs.users,
                                                      collabArgs.courses, collabArgs.storeOk),
                     \* userItemMatrix, when the call built it
                     matrix |-> IF /\ collabArgs.storeOk
                                   /\ Len(collabArgs.users) >= 2
                                   /\ Len(collabArgs.courses) >= 2
                                THEN buildInteractionMatrix(collabArgs.users, collabArgs.courses)
                                ELSE <<>>]
    /\ UNCHANGED <<collabArgs, combineArgs, combineRet, diversityArgs, diversityRet,
                   filterArgs, filterRet, extractArgs, extractRet,
                   engineVars, levelVars, userVars,
                   scorerVars, analyticsVars, scanVars, simVars>>

NextCollab == CollaborativeFilteringCall

SpecCollab == InitCollab /\ [][NextCollab]_vars

\* C15: collaborativeFiltering returns the empty list whenever the snapshot
\* has fewer than 2 users, or fewer than 2 courses, or does not contain the
\* requesting user.
C15_EmptyOnSmallSnapshotOrAbsentUser ==
    (/\ collabRet # NotRun
     /\ \/ Len(collabArgs.users) < 2
        \/ Len(collabArgs.courses) < 2
        \/ \A u \in 1..Len(collabArgs.users) : collabArgs.users[u].id # collabArgs.userId)
        => collabRet.value = <<>>

\* collaborativeFiltering has run for a requester absent from a snapshot of
\* two users with a common course and a course only one of them has taken
C15_Witness ==
    /\ collabRet # NotRun
    /\ collabArgs.storeOk
    /\ collabArgs.userId = "u0"
    /\ collabArgs.users = <<UserDoc(<<HistoryEntry("c1", "completed")>>), OtherUser>>
    /\ collabArgs.courses = Catalog
    /\ collabRet.value = <<>>

\* the filter also answers with candidates: the requester present among two
\* users and three courses gets the course the similar user completed
CollabRecommendsSomething ==
    /\ collabRet # NotRun
    /\ collabArgs.userId = "u1"
    /\ collabRet.value # <<>>

\* the positions of the entries of a user's learning history for a course
EntriesFor(u, k) ==
    {i \in 1..Len(collabArgs.users[u].learningHistory) :
        collabArgs.users[u].learningHistory[i].courseId = collabArgs.courses[k].id}

\* status, progress, rating and timeSpent of the entry that counts for a
\* course: the last one
CountedEntry(u, k) ==
    LET h == collabArgs.users[u].learningHistory[
                 CHOOSE i \in EntriesFor(u, k) : \A j \in EntriesFor(u, k) : j <= i]
    IN  <<h.status, h.progress, h.rating, h.timeSpent>>

\* C21: every entry of the matrix buildInteractionMatrix builds is in [0,2],
\* is 0 when the user has no learning-history entry for the course, and is
\* a function of the user's entry for the course: equal entries (status,
\* progress, rating, timeSpent) give equal weights.
C21_WeightInRangeZeroWhenNoneFunctionOfEntry ==
    collabRet # NotRun =>
        \A u \in 1..Len(collabRet.matrix) : \A k \in 1..Len(collabRet.matrix[u]) :
            /\ collabRet.matrix[u][k] >= 0
            /\ collabRet.matrix[u][k] <= 2 * One
            /\ EntriesFor(u, k) = {} => collabRet.matrix[u][k] = 0
            /\ \A v \in 1..Len(collabRet.matrix) : \A l \in 1..Len(collabRet.matrix[v]) :
                   (/\ EntriesFor(u, k) # {} /\ EntriesFor(v, l) # {}
                    /\ CountedEntry(u, k) = CountedEntry(v, l))
                       => collabRet.matrix[u][k] = collabRet.matrix[v][l]

\* a matrix has been built with a weight at the cap of 2 (completed, rated
\* 5, three hours spent), a weight strictly between 0 and 1, a 0 for a
\* course without entry, and two users with equal entries, one of them
\* having an earlier entry for the same course
C21_Witness ==
    /\ collabRet # NotRun
    /\ Len(collabRet.matrix) = 2
    /\ \E u \in 1..2 : \E k, l \in 1..Len(collabRet.matrix[u]) :
           /\ collabRet.matrix[u][k] = 2 * One
           /\ collabRet.matrix[u][l] > 0 /\ collabRet.matrix[u][l] < One
    /\ \E u \in 1..2 : \E m \in 1..Len(collabRet.matrix[u]) :
           EntriesFor(u, m) = {} /\ collabRet.matrix[u][m] = 0
    /\ \E k, l \in 1..Len(collabRet.matrix[1]) :
           /\ Cardinality(EntriesFor(1, k)) = 1 /\ Cardinality(EntriesFor(2, l)) = 2
           /\ CountedEntry(1, k) = CountedEntry(2, l)

\* the courseIds of the entries of the requester's learning history
RequesterHistoryCourseIds ==
    UNION { {collabArgs.users[u].learningHistory[i].courseId :
                i \in 1..Len(collabArgs.users[u].learningHistory)} :
            u \in {v \in 1..Len(collabArgs.users) : collabArgs.users[v].id = collabArgs.userId} }

\* C22: no candidate collaborativeFiltering emits is for a course of an entry
\* of the requester's learning history, whatever the entry's status, and
\* every candidate's predicted rating exceeds minSimilarityThreshold.
C22_OnlyCoursesOutsideHistoryAboveThreshold ==
    collabRet # NotRun =>
        \A i \in 1..Len(collabRet.value) :
            /\ collabRet.value[i].courseId \notin RequesterHistoryCourseIds
            /\ collabRet.value[i].score > minSimilarityThreshold

\* C26: every candidate collaborativeFiltering emits has a score in [0,1]
\* (and so has every candidate of the other three scorers, called alone).
C26_ScoresInUnit ==
    /\ (collabArgs # Idle /\ collabRet # NotRun) =>
           \A i \in 1..Len(collabRet.value) :
               collabRet.value[i].score >= 0 /\ collabRet.value[i].score <= One
    /\ (scorerArgs # Idle /\ scorerRet # NotRun) =>
           \A i \in 1..Len(scorerRet.value) :
               scorerRet.value[i].score >= 0 /\ scorerRet.value[i].score <= One

(***************************************************************************)
(* Specification SpecScorer: contentBasedFiltering,                        *)
(* marketDrivenRecommendations and behavioralRecommendations, each called  *)
(* alone on a user document drawn from a bounded set, over the catalog.    *)
(***************************************************************************)
ProfileSamples ==
    { [RequesterProfile EXCEPT !.learningPreferences = [difficulty |-> d],
                               !.careerGoals = g, !.skills = sk] :
        d \in {"mixed", "beginner-friendly", "challenging"},
        g \in {<<>>, RequesterProfile.careerGoals},
        sk \in {<<>>, RequesterProfile.skills,
                << [name |-> "machine learning", level |-> "expert"] >>} }

ScorerHistorySamples ==
    { <<>>, <<HistoryEntry("c1", "completed")>>,
      <<HistoryEntry("c1", "completed"), HistoryEntry("c3", "in-progress")>> }

ScorerUserSamples ==
    { [id |-> "u1", profile |-> p, learningHistory |-> h] :
        p \in ProfileSamples, h \in ScorerHistorySamples }

InitScorer ==
    /\ scorerArgs \in [scorer : {"content-based", "market-driven", "behavioral"},
                       user : ScorerUserSamples,
                       storeOk : BOOLEAN]
    /\ scorerRet = NotRun
    /\ combineArgs = Idle /\ combineRet = Idle
    /\ diversityArgs = Idle /\ diversityRet = Idle
    /\ filterArgs = Idle /\ filterRet = Idle
    /\ extractArgs = Idle /\ extractRet = Idle
    /\ EngineIdle /\ LevelIdle /\ CollabIdle /\ UserIdle
    /\ AnalyticsIdle /\ ScanIdle /\ SimIdle

ScorerCall(scorer, recs) ==
    /\ scorerRet = NotRun
    /\ scorerArgs.scorer = scorer
    /\ scorerRet' = [state |-> "returned", value |-> recs]
    /\ UNCHANGED <<scorerArgs, combineArgs, combineRet, diversityArgs, diversityRet,
                   filterArgs, filterRet, extractArgs, extractRet,
                   engineVars, levelVars, collabVars, userVars,
                   analyticsVars, scanVars, simVars>>

ContentBasedFilteringCall ==
    ScorerCall("content-based",
               contentBasedFiltering(scorerArgs.user, scorerArgs.storeOk))
MarketDrivenRecommendationsCall ==
    ScorerCall("market-driven",
               marketDrivenRecommendations(scorerArgs.user, scorerArgs.storeOk))
BehavioralRecommendationsCall ==
    ScorerCall("behavioral",
               behavioralRecommendations(scorerArgs.user, scorerArgs.storeOk))

NextScorerAlone ==
    \/ ContentBasedFilteringCall
    \/ MarketDrivenRecommendationsCall
    \/ BehavioralRecommendationsCall

SpecScorer == InitScorer /\ [][NextScorerAlone]_vars

\* C23: contentBasedFiltering drops exactly the candidates whose combined
\* score is below minSimilarityThreshold, a candidate whose score equals the
\* threshold being kept; it returns at most maxRecommendations candidates,
\* in non-increasing score order.
C23_KeptFromThresholdUp ==
    (/\ scorerRet # NotRun
     /\ scorerArgs.scorer = "content-based"
     /\ scorerArgs.storeOk)
        => /\ \A k \in 1..Len(Catalog) :
                  (\E i \in 1..Len(scorerRet.value) :
                       scorerRet.value[i].courseId = Catalog[k].id)
                  <=> ContentScore(scorerArgs.user, Catalog[k]) >= minSimilarityThreshold
           /\ Len(scorerRet.value) <= maxRecommendations
           /\ \A i, j \in 1..Len(scorerRet.value) :
                  i < j => scorerRet.value[i].score >= scorerRet.value[j].score

\* C27: the candidate list a single scorer returns has at most one
\* candidate per courseId.
C27_OneCandidatePerCourse ==
    scorerRet # NotRun =>
        \A i, j \in 1..Len(scorerRet.value) :
            scorerRet.value[i].courseId = scorerRet.value[j].courseId => i = j

(***************************************************************************)
(* Specification SpecSimilarity: calculateCourseSimilarity applied to two  *)
(* course documents drawn from a bounded set, in the order the diversity   *)
(* filter would take when the second was accepted first, and then in the   *)
(* order it would take when the first was.                                 *)
(***************************************************************************)
InitSimilarity ==
    /\ simArgs \in [course1 : CourseSamples, course2 : CourseSamples,
                     diversityFactor : DiversityFactors]
    /\ simRet = NotRun
    /\ combineArgs = Idle /\ combineRet = Idle
    /\ diversityArgs = Idle /\ diversityRet = Idle
    /\ filterArgs = Idle /\ filterRet = Idle
    /\ extractArgs = Idle /\ extractRet = Idle
    /\ EngineIdle /\ LevelIdle /\ CollabIdle /\ UserIdle
    /\ ScorerIdle /\ AnalyticsIdle /\ ScanIdle

\* course1 is the candidate, course2 the selected course
CourseSimilarityCall ==
    /\ simRet = NotRun
    /\ simRet' = [state |-> "one",
                  value |-> calculateCourseSimilarity(simArgs.course1, simArgs.course2)]
    /\ UNCHANGED <<simArgs, combineArgs, combineRet, diversityArgs, diversityRet,
                   filterArgs, filterRet, extractArgs, extractRet,
                   engineVars, levelVars, collabVars, userVars,
                   scorerVars, analyticsVars, scanVars>>

\* course2 is the candidate, course1 the selected course
CourseSimilaritySwappedCall ==
    /\ simRet.state = "one"
    /\ simRet' = [state |-> "both", value |-> simRet.value,
                  swapped |-> calculateCourseSimilarity(simArgs.course2, simArgs.course1)]
    /\ UNCHANGED <<simArgs, combineArgs, combineRet, diversityArgs, diversityRet,
                   filterArgs, filterRet, extractArgs, extractRet,
                   engineVars, levelVars, collabVars, userVars,
                   scorerVars, analyticsVars, scanVars>>

NextSimilarity == CourseSimilarityCall \/ CourseSimilaritySwappedCall

SpecSimilarity == InitSimilarity /\ [][NextSimilarity]_vars

\* C28: calculateCourseSimilarity gives the same value for two courses in
\* either order, so that the diversity check between them has the same
\* outcome whichever of the two was accepted first.
C28_CourseSimilaritySymmetric ==
    simRet.state = "both" =>
        /\ simRet.value.num * simRet.swapped.den = simRet.swapped.num * simRet.value.den
        /\ TooSimilar(simRet.value, simArgs.diversityFactor)
               <=> TooSimilar(simRet.swapped, simArgs.diversityFactor)

(***************************************************************************)
(* User.updateAnalytics(): the analytics of a user document, recomputed    *)
(* from its learning history, its recommendations and feedback, its streak *)
(* and the date it was last active.  Quotients are held as [num, den].     *)
(***************************************************************************)
\* learningHistory.filter(course => course.status === 'completed').length
CompletedCount(learningHistory) ==
    Cardinality({i \in 1..Len(learningHistory) : learningHistory[i].status = "completed"})

RECURSIVE TimeSpentFrom(_, _)
\* learningHistory.reduce((total, course) => total + (course.timeSpent || 0), 0)
TimeSpentFrom(learningHistory, i) ==
    IF i > Len(learningHistory) THEN 0
    ELSE learningHistory[i].timeSpent + TimeSpentFrom(learningHistory, i + 1)

\* the virtual completionRate: (completedCourses / totalCourses) * 100
completionRate(doc) ==
    IF Len(doc.learningHistory) = 0 THEN [num |-> 0, den |-> 1]
    ELSE [num |-> 100 * CompletedCount(doc.learningHistory), den |-> Len(doc.learningHistory)]

\* recommendationFeedback.length / Math.max(recommendations.length, 1)
FeedbackProvided(doc) ==
    [num |-> doc.feedback, den |-> Max(doc.recommendations, 1)]

\* Math.max(0, 1 - (Date.now() - lastActiveDate) / (30 days)), 0 without a date;
\* the difference is held in whole days
RecentActivity(doc) ==
    IF ~doc.lastActive.set THEN [num |-> 0, den |-> 1]
    ELSE [num |-> Max(0, 30 - doc.lastActive.daysAgo), den |-> 30]

\* Math.min(streakDays / 30, 1)
StreakFactor(doc) == [num |-> Min(doc.streakDays, 30), den |-> 30]

\* the mean of the four factors
EngagementScore(doc) ==
    LET c == completionRate(doc)
        r == RecentActivity(doc)
        f == FeedbackProvided(doc)
        k == StreakFactor(doc)
    IN  [num |-> c.num * r.den * f.den * k.den
                 + 100 * r.num * c.den * f.den * k.den
                 + 100 * f.num * c.den * r.den * k.den
                 + 100 * k.num * c.den * r.den * f.den,
         den |-> 4 * 100 * c.den * r.den * f.den * k.den]

updateAnalytics(doc) ==
    [coursesCompleted |-> CompletedCount(doc.learningHistory),
     totalLearningTime |-> TimeSpentFrom(doc.learningHistory, 1),
     engagementScore |-> EngagementScore(doc)]

(***************************************************************************)
(* Specification SpecAnalytics: updateAnalytics called on a user document  *)
(* drawn from a bounded set.                                               *)
(***************************************************************************)
AnalyticsHistorySamples ==
    { <<>>,
      <<HistoryEntry("c1", "completed")>>,
      << [HistoryEntry("c1", "completed") EXCEPT !.timeSpent = 120, !.rating = 4],
         [HistoryEntry("c2", "in-progress") EXCEPT !.timeSpent = 30] >>,
      << [HistoryEntry("c1", "dropped") EXCEPT !.timeSpent = 10] >> }

\* lastActiveDate: absent, or a number of days before now (after now when negative)
LastActiveSamples ==
    {[set |-> FALSE]} \cup {[set |-> TRUE, daysAgo |-> d] : d \in {-30, 0, 15, 45}}

InitAnalytics ==
    /\ analyticsArgs \in [learningHistory : AnalyticsHistorySamples,
                           recommendations : {0, 1, 4},
                           feedback : {0, 1, 2, 5},
                           lastActive : LastActiveSamples,
                           streakDays : {0, 15, 45}]
    /\ analyticsRet = NotRun
    /\ combineArgs = Idle /\ combineRet = Idle
    /\ diversityArgs = Idle /\ diversityRet = Idle
    /\ filterArgs = Idle /\ filterRet = Idle
    /\ extractArgs = Idle /\ extractRet = Idle
    /\ EngineIdle /\ LevelIdle /\ CollabIdle /\ UserIdle
    /\ ScorerIdle /\ ScanIdle /\ SimIdle

UpdateAnalyticsCall ==
    /\ analyticsRet = NotRun
    /\ analyticsRet' = [state |-> "returned", analytics |-> updateAnalytics(analyticsArgs)]
    /\ UNCHANGED <<analyticsArgs, combineArgs, combineRet, diversityArgs, diversityRet,
                   filterArgs, filterRet, extractArgs, extractRet,
                   engineVars, levelVars, collabVars, userVars,
                   scorerVars, scanVars, simVars>>

NextAnalytics == UpdateAnalyticsCall

SpecAnalytics == InitAnalytics /\ [][NextAnalytics]_vars

\* C29: after updateAnalytics, engagementScore is in [0,1], coursesCompleted
\* is the number of completed entries of the learning history and
\* totalLearningTime is the sum of timeSpent over all its entries.
C29_AnalyticsInRange ==
    analyticsRet # NotRun =>
        /\ analyticsRet.analytics.engagementScore.num >= 0
        /\ analyticsRet.analytics.engagementScore.num
               <= analyticsRet.analytics.engagementScore.den
        /\ analyticsRet.analytics.coursesCompleted
               = Cardinality({i \in 1..Len(analyticsArgs.learningHistory) :
                                 analyticsArgs.learningHistory[i].status = "completed"})
        /\ analyticsRet.analytics.totalLearningTime
               = (IF Len(analyticsArgs.learningHistory) >= 1
                  THEN analyticsArgs.learningHistory[1].timeSpent ELSE 0)
                 + (IF Len(analyticsArgs.learningHistory) >= 2
                    THEN analyticsArgs.learningHistory[2].timeSpent ELSE 0)

(***************************************************************************)
(* The loop of extractSkillContext, one call of skillRegex.exec per step,  *)
(* on texts and skill names held as sequences of characters.  The regex is *)
(* \b<escaped skill name>\b with the flags g and i.                        *)
(***************************************************************************)
MaxTextLen == 3     \* characters of the text
MaxNameLen == 2     \* characters of the skill name
\* pushes counted; a scan that ends pushes at most one window per character
MaxMatches == MaxTextLen + 1

\* a letter in both cases, a character that is special in a regex, a space
Chars == {"a", "A", "+", " "}

\* \w
IsWordChar(c) == c \in {"a", "A"}

\* the flag i
FoldCase(c) == IF c = "A" THEN "a" ELSE c

\* \b at index i (0-based): exactly one of the characters before and after
\* the index is a word character
WordBoundary(text, i) ==
    (i >= 1 /\ IsWordChar(text[i])) # (i < Len(text) /\ IsWordChar(text[i + 1]))

\* the regex matches at index i; escapeRegex makes every character of the
\* skill name match itself
MatchesAt(text, skillName, i) ==
    /\ i + Len(skillName) <= Len(text)
    /\ \A k \in 1..Len(skillName) : FoldCase(text[i + k]) = FoldCase(skillName[k])
    /\ WordBoundary(text, i)
    /\ WordBoundary(text, i + Len(skillName))

\* skillRegex.exec(text) from lastIndex: the first index not below lastIndex
\* where the regex matches, lastIndex becoming the end of the match; null,
\* lastIndex becoming 0, when there is none
RegexExec(text, skillName, lastIndex) ==
    LET found == {i \in lastIndex..Len(text) : MatchesAt(text, skillName, i)}
    IN  IF found = {} THEN [match |-> FALSE, lastIndex |-> 0]
        ELSE LET index == CHOOSE i \in found : \A j \in found : i <= j
             IN  [match |-> TRUE, index |-> index, lastIndex |-> index + Len(skillName)]

(***************************************************************************)
(* Specification SpecScan: analyzeSkillLevel(text, skillName) step by      *)
(* step: the exec loop of extractSkillContext, then the scoring of the     *)
(* levels on the context returned.                                         *)
(***************************************************************************)
InitScan ==
    /\ scanArgs \in [text : SeqsUpTo(Chars, MaxTextLen),
                      skillName : SeqsUpTo(Chars, MaxNameLen)]
    /\ scanRet = [pc |-> "exec", lastIndex |-> 0, matches |-> 0]
    /\ combineArgs = Idle /\ combineRet = Idle
    /\ diversityArgs = Idle /\ diversityRet = Idle
    /\ filterArgs = Idle /\ filterRet = Idle
    /\ extractArgs = Idle /\ extractRet = Idle
    /\ EngineIdle /\ LevelIdle /\ CollabIdle /\ UserIdle
    /\ ScorerIdle /\ AnalyticsIdle /\ SimIdle

\* exec answers a match: the loop body is entered
ExecMatch ==
    /\ scanRet.pc = "exec"
    /\ LET r == RegexExec(scanArgs.text, scanArgs.skillName, scanRet.lastIndex)
       IN  /\ r.match
           /\ scanRet' = [scanRet EXCEPT !.pc = "push", !.lastIndex = r.lastIndex]
    /\ UNCHANGED <<scanArgs, combineArgs, combineRet, diversityArgs, diversityRet,
                   filterArgs, filterRet, extractArgs, extractRet,
                   engineVars, levelVars, collabVars, userVars,
                   scorerVars, analyticsVars, simVars>>

\* the window of the match is pushed and exec is called again
PushWindow ==
    /\ scanRet.pc = "push"
    /\ scanRet' = [scanRet EXCEPT !.pc = "exec",
                                  !.matches = Min(scanRet.matches + 1, MaxMatches)]
    /\ UNCHANGED <<scanArgs, combineArgs, combineRet, diversityArgs, diversityRet,
                   filterArgs, filterRet, extractArgs, extractRet,
                   engineVars, levelVars, collabVars, userVars,
                   scorerVars, analyticsVars, simVars>>

\* exec answers null: the loop ends and extractSkillContext returns the join
ExecNull ==
    /\ scanRet.pc = "exec"
    /\ LET r == RegexExec(scanArgs.text, scanArgs.skillName, scanRet.lastIndex)
       IN  /\ ~r.match
           /\ scanRet' = [scanRet EXCEPT !.pc = "levels", !.lastIndex = r.lastIndex]
    /\ UNCHANGED <<scanArgs, combineArgs, combineRet, diversityArgs, diversityRet,
                   filterArgs, filterRet, extractArgs, extractRet,
                   engineVars, levelVars, collabVars, userVars,
                   scorerVars, analyticsVars, simVars>>

\* the levels are scored on the context and analyzeSkillLevel returns; every
\* match of the year regex holds a digit, so that loop advances
LevelsScored ==
    /\ scanRet.pc = "levels"
    /\ scanRet' = [scanRet EXCEPT !.pc = "returned"]
    /\ UNCHANGED <<scanArgs, combineArgs, combineRet, diversityArgs, diversityRet,
                   filterArgs, filterRet, extractArgs, extractRet,
                   engineVars, levelVars, collabVars, userVars,
                   scorerVars, analyticsVars, simVars>>

NextScan == ExecMatch \/ PushWindow \/ ExecNull \/ LevelsScored

SpecScan == InitScan /\ [][NextScan]_vars

\* the call is synchronous code: it keeps running while it has a step to
\* take.  The pushes are counted up to MaxMatches, so that a loop that goes
\* on pushing is a cycle of exec and push.
SpecScanFair == SpecScan /\ WF_vars(NextScan)

\* C30: extractSkillContext and analyzeSkillLevel terminate for every text
\* and every skill name, the empty name and names of non-word characters
\* included: every call of analyzeSkillLevel returns.
C30_AnalyzeSkillLevelReturns == <>(scanRet.pc = "returned")

(***************************************************************************)
(* generateRecommendations(userId, options).  Two callers call it, each    *)
(* any number of times; a call advances by one step at each await.  The    *)
(* environment updates the requester's learning history, lets cache        *)
(* entries expire, and lets store calls reject.                            *)
(***************************************************************************)
MaxCalls == 3       \* calls started in a behaviour
MaxFaults == 1      \* rejected store calls in a behaviour

\* the callers of the behaviour
Callers == DOMAIN calls
Scorers == {"collaborative", "content-based", "market-driven", "behavioral"}

\* options = {}: the defaults of the destructuring
DefaultOptions ==
    [limit |-> 10, includeExplanations |-> TRUE, filterCompleted |-> TRUE,
     diversityFactor |-> 30]

OptionSamples ==
    {DefaultOptions,
     [limit |-> 1, includeExplanations |-> FALSE, filterCompleted |-> FALSE,
      diversityFactor |-> 0]}

UserIdSamples == {"u1", "u0"}    \* "u0" is no user of the store

\* `recommendations:${userId}:${JSON.stringify(options)}`
CacheKey(userId, options) == <<userId, options>>
CacheKeys == {CacheKey(u, o) : u \in UserIdSamples, o \in OptionSamples}

\* Cache.get answers an entry or a miss; asOf and clean record what the
\* entry was computed from (history variables, not read by the program)
Miss == [hit |-> FALSE]
CacheGet(key) == cache[key]
CacheSet(key, value, asOf, clean) ==
    [cache EXCEPT ![key] = [hit |-> TRUE, value |-> value, asOf |-> asOf, clean |-> clean]]

\* what a history that was read at two different states is recorded as
Mixed == [c \in CatalogIds |-> "mixed"]

\* User.find({}).select('learningHistory')
UsersOfStore == <<UserDoc(HistoryEntries(requesterHistory, 1)), OtherUser>>

\* variant: the first enriched candidate only
ValueToCache_First(enrichedRecs) == Slice(enrichedRecs, 1)

\* the value handed to CacheManager.set
ValueToCache(enrichedRecs) == enrichedRecs

\* variant: a cached list is answered without its first candidate
ResultOnHit_Tail(cachedRecs) == IF Len(cachedRecs) = 0 THEN cachedRecs ELSE Tail(cachedRecs)

\* the list returned on a cache hit
ResultOnHit(cachedRecs) == cachedRecs

\* whether the scorer reaches a store call
ScorerCallsStore(scorer, user) ==
    scorer = "behavioral" => Len(user.learningHistory) > 0

ScorerRecs(scorer, userId, user, users, storeOk) ==
    CASE scorer = "collaborative" -> collaborativeFiltering(userId, users, Catalog, storeOk)
      [] scorer = "content-based" -> contentBasedFiltering(user, storeOk)
      [] scorer = "market-driven" -> marketDrivenRecommendations(user, storeOk)
      [] scorer = "behavioral" -> behavioralRecommendations(user, storeOk)

\* variant: the scorer has no try/catch, a rejected store call rejects it
ScorerSettled_Uncaught(scorer, userId, user, users, storeOk) ==
    IF storeOk \/ ~ScorerCallsStore(scorer, user)
    THEN [state |-> "fulfilled", value |-> ScorerRecs(scorer, userId, user, users, storeOk)]
    ELSE [state |-> "rejected", error |-> "scorer"]

\* the promise of one scorer: its body is inside try/catch, so it fulfils
ScorerSettled(scorer, userId, user, users, storeOk) ==
    [state |-> "fulfilled", value |-> ScorerRecs(scorer, userId, user, users, storeOk)]

\* one enriched candidate
Enriched(rec, course, includeExplanations) ==
    IF includeExplanations
    THEN [courseId |-> rec.courseId, score |-> rec.score, course |-> course,
          explanation |-> [primaryReason |-> rec.sources[1].reason,
                           sources |-> rec.sources,
                           confidence |-> Min(rec.score, OneCombined)]]
    ELSE [courseId |-> rec.courseId, score |-> rec.score, course |-> course]

RECURSIVE EnrichedFrom(_, _, _, _)
\* .map(...).filter(rec => rec.course !== null)
EnrichedFrom(recommendations, courseMap, includeExplanations, i) ==
    IF i > Len(recommendations) THEN <<>>
    ELSE (IF recommendations[i].courseId \in DOMAIN courseMap
          THEN <<Enriched(recommendations[i], courseMap[recommendations[i].courseId],
                          includeExplanations)>>
          ELSE <<>>)
         \o EnrichedFrom(recommendations, courseMap, includeExplanations, i + 1)

enrichRecommendations(recommendations, includeExplanations, collection, storeOk) ==
    IF ~storeOk THEN [state |-> "raised", error |-> "Course.find"]
    ELSE [state |-> "returned",
          value |-> EnrichedFrom(recommendations,
                        CourseMapOf(collection,
                            {recommendations[i].courseId : i \in 1..Len(recommendations)}),
                        includeExplanations, 1)]

\* lines 92-97: filterCompletedCourses when asked, then slice(0, limit)
FilteredAndLimited(finalRecs, options, user) ==
    Slice(IF options.filterCompleted
          THEN filterCompletedCourses(finalRecs, user.learningHistory)
          ELSE finalRecs,
          options.limit)

NoRecs == [s \in Scorers |-> <<>>]
NoAnswer == [some |-> FALSE]

\* a caller that is not in a call
NoCall ==
    [pc |-> "idle", userId |-> "u1", options |-> DefaultOptions,
     user |-> Idle, pending |-> {}, failed |-> {}, recs |-> NoRecs,
     work |-> <<>>, result |-> <<>>, error |-> "",
     storeAnswered |-> FALSE, fromCache |-> FALSE, clean |-> TRUE,
     startHistory |-> Mixed, asOf |-> Mixed, overlapped |-> FALSE]

InFlight(call) == call.pc \notin {"idle", "returned", "raised"}
KeyOf(call) == CacheKey(call.userId, call.options)

\* what the audit keeps of a returned call
AnswerOf(call) ==
    [some |-> TRUE, pc |-> "returned", userId |-> call.userId, options |-> call.options,
     result |-> call.result,
     startHistory |-> call.startHistory, asOf |-> call.asOf, clean |-> call.clean,
     fromCache |-> call.fromCache]

\* lines 106-109: the call raises; its locals are gone
Raised(call, error) ==
    [NoCall EXCEPT !.pc = "raised", !.error = error,
                   !.userId = call.userId, !.options = call.options,
                   !.storeAnswered = call.storeAnswered,
                   !.startHistory = call.startHistory,
                   !.overlapped = call.overlapped]

PureIdle ==
    /\ combineArgs = Idle /\ combineRet = Idle
    /\ diversityArgs = Idle /\ diversityRet = Idle
    /\ filterArgs = Idle /\ filterRet = Idle
    /\ extractArgs = Idle /\ extractRet = Idle
    /\ LevelIdle /\ CollabIdle /\ UserIdle
    /\ ScorerIdle /\ AnalyticsIdle /\ ScanIdle /\ SimIdle

pureVars == <<combineArgs, combineRet, diversityArgs, diversityRet,
              filterArgs, filterRet, extractArgs, extractRet,
              levelVars, collabVars, userVars,
              scorerVars, analyticsVars, scanVars, simVars>>

Init ==
    /\ requesterHistory = [c \in CatalogIds |-> "none"]
    /\ cache = [k \in CacheKeys |-> Miss]
    /\ calls = [p \in {1} |-> NoCall]
    /\ audit = [started |-> 0, faults |-> 0, last |-> NoAnswer]
    /\ PureIdle

\* a store call of the request rejects
Fault == audit' = [audit EXCEPT !.faults = @ + 1]
MayFault == audit.faults < MaxFaults

\* lines 44-55: the call starts and asks the cache
Invoke(p, userId, options) ==
    /\ ~InFlight(calls[p])
    /\ audit.started < MaxCalls
    /\ calls' = [q \in Callers |->
            IF q = p
            THEN [NoCall EXCEPT !.pc = "cacheGet", !.userId = userId, !.options = options,
                                !.overlapped = \E o \in Callers \ {p} : InFlight(calls[o])]
            ELSE [calls[q] EXCEPT !.overlapped = @ \/ InFlight(calls[q])]]
    /\ audit' = [audit EXCEPT !.started = @ + 1,
                             !.last = IF calls[p].pc = "returned"
                                      THEN AnswerOf(calls[p]) ELSE @]
    /\ UNCHANGED <<requesterHistory, cache, pureVars>>

\* lines 55-59 on a hit: the cached list is returned
CacheHit(p) ==
    /\ calls[p].pc = "cacheGet"
    /\ CacheGet(KeyOf(calls[p])).hit
    /\ LET entry == CacheGet(KeyOf(calls[p]))
           done == [calls[p] EXCEPT !.pc = "returned",
                                    !.result = ResultOnHit(entry.value),
                                    !.fromCache = TRUE,
                                    !.asOf = entry.asOf, !.clean = entry.clean,
                                    !.startHistory = requesterHistory]
       IN  calls' = [calls EXCEPT ![p] = done]
    /\ UNCHANGED <<requesterHistory, cache, audit, pureVars>>

\* lines 55-61 on a miss: the user is asked for
CacheMiss(p) ==
    /\ calls[p].pc = "cacheGet"
    /\ ~CacheGet(KeyOf(calls[p])).hit
    /\ calls' = [calls EXCEPT ![p] = [@ EXCEPT !.pc = "findUser",
                                               !.startHistory = requesterHistory]]
    /\ UNCHANGED <<requesterHistory, cache, audit, pureVars>>

\* lines 61-79: the user is found and the four scorers start
UserFound(p) ==
    /\ calls[p].pc = "findUser"
    /\ calls[p].userId = "u1"
    /\ calls' = [calls EXCEPT ![p] =
            [@ EXCEPT !.pc = "scorers",
                      !.user = UserDoc(HistoryEntries(requesterHistory, 1)),
                      !.asOf = requesterHistory,
                      !.storeAnswered = TRUE,
                      !.pending = Scorers]]
    /\ UNCHANGED <<requesterHistory, cache, audit, pureVars>>

\* lines 61-64, 106-109: no such user
UserNotFound(p) ==
    /\ calls[p].pc = "findUser"
    /\ calls[p].userId # "u1"
    /\ calls' = [calls EXCEPT ![p] =
            [Raised(@, "User not found") EXCEPT !.storeAnswered = TRUE]]
    /\ UNCHANGED <<requesterHistory, cache, audit, pureVars>>

\* lines 61, 106-109: User.findById rejects
UserLookupRejects(p) ==
    /\ calls[p].pc = "findUser"
    /\ MayFault /\ Fault
    /\ calls' = [calls EXCEPT ![p] = Raised(@, "User.findById")]
    /\ UNCHANGED <<requesterHistory, cache, pureVars>>

\* The four promises settle in any order.  Only collaborativeFiltering reads
\* the changing store and no scorer reads what another wrote, so every order
\* gives the results of the order of the array, which is the one taken.
ScorerOrder == <<"collaborative", "content-based", "market-driven", "behavioral">>
NextScorer(pending) ==
    ScorerOrder[CHOOSE i \in 1..Len(ScorerOrder) :
                    /\ ScorerOrder[i] \in pending
                    /\ \A j \in 1..(i - 1) : ScorerOrder[j] \notin pending]

\* the call after one of its scorers has settled
AfterScorer(call, scorer, storeOk) ==
    LET settled == ScorerSettled(scorer, call.userId, call.user, UsersOfStore, storeOk)
        threw == ~storeOk /\ ScorerCallsStore(scorer, call.user)
    IN  IF settled.state = "rejected" THEN Raised(call, settled.error)
        ELSE [call EXCEPT
                !.pending = @ \ {scorer},
                !.recs = [@ EXCEPT ![scorer] = settled.value],
                !.failed = IF threw THEN @ \cup {scorer} ELSE @,
                !.clean = @ /\ ~threw,
                !.asOf = IF scorer = "collaborative" /\ storeOk /\ @ # requesterHistory
                         THEN Mixed ELSE @]

\* lines 74-79: one scorer settles, its store calls answering
ScorerSettles(p, scorer) ==
    /\ calls[p].pc = "scorers"
    /\ calls[p].pending # {}
    /\ scorer = NextScorer(calls[p].pending)
    /\ calls' = [calls EXCEPT ![p] = AfterScorer(@, scorer, TRUE)]
    /\ UNCHANGED <<requesterHistory, cache, audit, pureVars>>

\* lines 74-79: one scorer settles, a store call of it rejecting
ScorerStoreRejects(p, scorer) ==
    /\ calls[p].pc = "scorers"
    /\ calls[p].pending # {}
    /\ scorer = NextScorer(calls[p].pending)
    /\ ScorerCallsStore(scorer, calls[p].user)
    /\ MayFault /\ Fault
    /\ calls' = [calls EXCEPT ![p] = AfterScorer(@, scorer, FALSE)]
    /\ UNCHANGED <<requesterHistory, cache, pureVars>>

\* the call after Promise.all has fulfilled
AfterJoin(call) ==
    [call EXCEPT !.pc = "diversity",
                 !.work = combineRecommendations(
                              EngineSources(call.recs["collaborative"],
                                            call.recs["content-based"],
                                            call.recs["market-driven"],
                                            call.recs["behavioral"]))]

\* lines 82-90: the four are joined and combined, the diversity filter starts
Combine(p) ==
    /\ calls[p].pc = "scorers"
    /\ calls[p].pending = {}
    /\ calls' = [calls EXCEPT ![p] = AfterJoin(@)]
    /\ UNCHANGED <<requesterHistory, cache, audit, pureVars>>

\* the call after applyDiversityFilter has settled
AfterDiversity(call, storeOk) ==
    LET outcome == applyDiversityFilter(call.work, call.options.diversityFactor,
                                        CatalogCollection, storeOk)
    IN  IF outcome.state = "raised" THEN Raised(call, outcome.error)
        ELSE [call EXCEPT !.pc = "enrich",
                          !.recs = NoRecs, !.failed = {},
                          !.work = FilteredAndLimited(outcome.value, call.options, call.user)]

\* lines 90-98: the diversity filter answers; completed courses are filtered,
\* the list is cut and enrichment starts
Diversity(p) ==
    /\ calls[p].pc = "diversity"
    /\ calls' = [calls EXCEPT ![p] = AfterDiversity(@, TRUE)]
    /\ UNCHANGED <<requesterHistory, cache, audit, pureVars>>

\* lines 90, 372-374, 106-109: Course.find of the diversity filter rejects
DiversityStoreRejects(p) ==
    /\ calls[p].pc = "diversity"
    /\ Len(calls[p].work) > 1
    /\ MayFault /\ Fault
    /\ calls' = [calls EXCEPT ![p] = AfterDiversity(@, FALSE)]
    /\ UNCHANGED <<requesterHistory, cache, pureVars>>

\* the call after enrichRecommendations has settled
AfterEnrich(call, storeOk) ==
    LET outcome == enrichRecommendations(call.work, call.options.includeExplanations,
                                         CatalogCollection, storeOk)
    IN  IF outcome.state = "raised" THEN Raised(call, outcome.error)
        ELSE [call EXCEPT !.pc = "cacheSet", !.work = outcome.value]

\* lines 98-101: the enriched list is handed to the cache
Enrich(p) ==
    /\ calls[p].pc = "enrich"
    /\ calls' = [calls EXCEPT ![p] = AfterEnrich(@, TRUE)]
    /\ UNCHANGED <<requesterHistory, cache, audit, pureVars>>

\* lines 98, 426, 106-109: Course.find of the enrichment rejects
EnrichStoreRejects(p) ==
    /\ calls[p].pc = "enrich"
    /\ MayFault /\ Fault
    /\ calls' = [calls EXCEPT ![p] = AfterEnrich(@, FALSE)]
    /\ UNCHANGED <<requesterHistory, cache, pureVars>>

\* variant: the list is handed to the cache before it is enriched
Stored_BeforeEnrich(p) ==
    /\ calls[p].pc = "enrich"
    /\ LET done == [calls[p] EXCEPT !.pc = "returned", !.result = calls[p].work,
                                    !.work = <<>>, !.user = Idle]
       IN  /\ cache' = CacheSet(KeyOf(done), ValueToCache(done.result), done.asOf, done.clean)
           /\ calls' = [calls EXCEPT ![p] = done]
    /\ UNCHANGED <<requesterHistory, audit, pureVars>>

\* lines 101-104: the cache has stored the list and the call returns it
Stored(p) ==
    /\ calls[p].pc = "cacheSet"
    /\ LET done == [calls[p] EXCEPT !.pc = "returned", !.result = calls[p].work,
                                    !.work = <<>>, !.user = Idle]
       IN  /\ cache' = CacheSet(KeyOf(done), ValueToCache(done.result), done.asOf, done.clean)
           /\ calls' = [calls EXCEPT ![p] = done]
    /\ UNCHANGED <<requesterHistory, audit, pureVars>>

\* lines 74-101 in one step, from the moment collaborativeFiltering has settled
\* to the call of CacheManager.set: these steps read the call's own data and
\* the Course collection, which does not change, so that taking them at once
\* loses no behaviour.  The store answers.
RestOfPipeline(p) ==
    /\ calls[p].pc = "scorers"
    /\ calls[p].pending = Scorers \ {"collaborative"}
    /\ calls' = [calls EXCEPT ![p] =
            AfterEnrich(
              AfterDiversity(
                AfterJoin(
                  AfterScorer(AfterScorer(AfterScorer(@, "content-based", TRUE),
                                          "market-driven", TRUE),
                              "behavioral", TRUE)),
                TRUE),
              TRUE)]
    /\ UNCHANGED <<requesterHistory, cache, audit, pureVars>>

\* the courses the requester takes up
TakenUp == {"c1"}

\* an entry for a course enters the requester's learning history
HistoryUpdate(courseId, status) ==
    /\ requesterHistory[courseId] = "none"
    /\ requesterHistory' = [requesterHistory EXCEPT ![courseId] = status]
    /\ UNCHANGED <<cache, calls, audit, pureVars>>

\* the 1800 seconds of an entry are over
Expire(key) ==
    /\ cache[key].hit
    /\ cache' = [cache EXCEPT ![key] = Miss]
    /\ UNCHANGED <<requesterHistory, calls, audit, pureVars>>

Next ==
    \/ \E p \in Callers, userId \in UserIdSamples, options \in OptionSamples :
           Invoke(p, userId, options)
    \/ \E p \in Callers :
           \/ CacheHit(p) \/ CacheMiss(p)
           \/ UserFound(p) \/ UserNotFound(p) \/ UserLookupRejects(p)
           \/ \E scorer \in Scorers : ScorerSettles(p, scorer) \/ ScorerStoreRejects(p, scorer)
           \/ Combine(p)
           \/ Diversity(p) \/ DiversityStoreRejects(p)
           \/ Enrich(p) \/ EnrichStoreRejects(p)
           \/ Stored(p)
    \/ \E courseId \in TakenUp, status \in {"in-progress", "completed"} :
           HistoryUpdate(courseId, status)
    \/ \E key \in CacheKeys : Expire(key)

Spec == Init /\ [][Next]_vars

\* two callers
InitConcurrent ==
    /\ requesterHistory = [c \in CatalogIds |-> "none"]
    /\ cache = [k \in CacheKeys |-> Miss]
    /\ calls = [p \in {1, 2} |-> NoCall]
    /\ audit = [started |-> 0, faults |-> 0, last |-> NoAnswer]
    /\ PureIdle

\* the two call with the requester's id and the default options
NextConcurrent ==
    \/ \E p \in Callers : Invoke(p, "u1", DefaultOptions)
    \/ \E p \in Callers :
           \/ CacheHit(p) \/ CacheMiss(p)
           \/ UserFound(p)
           \/ ScorerSettles(p, "collaborative")
           \/ ScorerStoreRejects(p, "collaborative")
           \/ RestOfPipeline(p)
           \/ Stored(p)
    \/ \E courseId \in TakenUp, status \in {"in-progress", "completed"} :
           HistoryUpdate(courseId, status)
    \/ \E key \in CacheKeys : Expire(key)

SpecConcurrent == InitConcurrent /\ [][NextConcurrent]_vars

(***************************************************************************)
(* Properties of generateRecommendations.                                  *)
(***************************************************************************)
\* the answer was not computed by a call one of whose scorers met a rejection
OwnScorersAnswered(answer) == answer.fromCache \/ answer.clean

\* the answer was computed, by the call itself or by the call that filled the
\* cache entry, from the history read when the call started, every scorer's
\* store calls answering
FromStartSnapshot(answer) == answer.asOf = answer.startHistory /\ answer.clean

\* the caller's call has returned, the call before it had returned too, with
\* the same userId and options, and the history has not changed since that
\* call started
TwoCallsInSequence(p) ==
    /\ calls[p].pc = "returned" /\ audit.last.some
    /\ KeyOf(audit.last) = KeyOf(calls[p])
    /\ audit.last.startHistory = requesterHistory
    /\ calls[p].startHistory = requesterHistory
    /\ OwnScorersAnswered(audit.last) /\ OwnScorersAnswered(calls[p])

C7_FailedScorerIsolated ==
    \A p \in Callers :
        /\ calls[p].pc = "raised" => calls[p].error # "scorer"
        /\ (calls[p].pc = "diversity" /\ Cardinality(calls[p].failed) = 1) =>
              /\ \A s \in calls[p].failed : calls[p].recs[s] = <<>>
              /\ \A s \in Scorers \ (calls[p].failed \cup {"collaborative"}) :
                    calls[p].recs[s]
                        = ScorerRecs(s, calls[p].userId, calls[p].user, <<>>, TRUE)
              /\ calls[p].work = combineRecommendations(
                    EngineSources(calls[p].recs["collaborative"],
                                  calls[p].recs["content-based"],
                                  calls[p].recs["market-driven"],
                                  calls[p].recs["behavioral"]))

\* one scorer failed and the candidates of the others were combined
C7_Witness ==
    \E p \in Callers :
        /\ calls[p].pc = "diversity"
        /\ calls[p].failed = {"content-based"}
        /\ Len(calls[p].work) > 0

\* C8 (as claimed): the call raises only when the user is not found or when
\* no store call of the request was answered.
C8_RaisesOnlyWhenFatal ==
    \A p \in Callers :
        calls[p].pc = "raised" =>
            \/ calls[p].error = "User not found"
            \/ ~calls[p].storeAnswered

\* the two callers' calls overlapped, had the same userId and options, and the
\* history has not changed since either started
TwoCallsConcurrent ==
    /\ Callers = {1, 2}
    /\ calls[1].pc = "returned" /\ calls[2].pc = "returned"
    /\ calls[1].overlapped /\ calls[2].overlapped
    /\ KeyOf(calls[1]) = KeyOf(calls[2])
    /\ calls[1].startHistory = requesterHistory
    /\ calls[2].startHistory = requesterHistory
    /\ OwnScorersAnswered(calls[1]) /\ OwnScorersAnswered(calls[2])

\* both returned the same list and the cache, if it holds an entry, holds that list
SameListAndCached ==
    /\ calls[1].result = calls[2].result
    /\ CacheGet(KeyOf(calls[1])).hit => CacheGet(KeyOf(calls[1])).value = calls[1].result

C24_NoCompletedCourseReturned ==
    \A p \in Callers :
        (calls[p].pc = "returned" /\ calls[p].options.filterCompleted) =>
            \A i \in 1..Len(calls[p].result) :
                calls[p].startHistory[calls[p].result[i].courseId] # "completed"


\* a step that writes an entry of the cache
CacheWritten == \E key \in CacheKeys : cache'[key].hit /\ cache'[key] # cache[key]

\* C25: the cache is written only by a call whose whole pipeline has succeeded,
\* with the list that call returns; a step in which a call raises leaves the
\* cache as it was; a call answered by the cache has loaded no user, run no
\* scorer and written nothing to the cache.
C25_CacheWrittenOnlyAfterSuccess ==
    [][/\ CacheWritten =>
              \E p \in Callers :
                  /\ calls[p].pc = "cacheSet" /\ calls'[p].pc = "returned"
                  /\ calls[p].pending = {}
                  /\ \A i \in 1..Len(calls[p].work) : "course" \in DOMAIN calls[p].work[i]
                  /\ calls'[p].result = calls[p].work
                  /\ \A key \in CacheKeys :
                         IF key = KeyOf(calls[p])
                         THEN cache'[key].hit /\ cache'[key].value = calls'[p].result
                         ELSE cache'[key] = cache[key]
       /\ \A p \in Callers :
              (calls'[p].pc = "raised" /\ calls[p].pc # "raised") => cache' = cache
       /\ \A p \in Callers :
              (calls[p].pc = "cacheGet" /\ calls'[p].pc = "returned") =>
                  /\ cache' = cache
                  /\ calls'[p].result = CacheGet(KeyOf(calls[p])).value
                  /\ calls'[p].user = Idle /\ ~calls'[p].storeAnswered
                  /\ calls'[p].recs = NoRecs /\ calls'[p].pending = {}]_vars

\* a call raised after its user was loaded while the cache holds the list of an
\* earlier call, and that list is not empty
C25_Witness ==
    \E p \in Callers :
        /\ calls[p].pc = "raised" /\ calls[p].error = "Course.find"
        /\ \E key \in CacheKeys : cache[key].hit /\ Len(cache[key].value) > 0

=============================================================================
